---- MODULE Spec2Model ----
(***************************************************************************)
(* Hierarchical finite state machine (src/src/hfsm.c) over the arena       *)
(* backed list / stack of src/src/collections.c.                           *)
(*                                                                         *)
(* One machine at a time is created by fsm_init, driven by fsm_transition  *)
(* and fsm_update, and destroyed by fsm_term.  State definitions (and so   *)
(* their history slots) are static objects that outlive a machine.         *)
(* Hooks, guards and actions are user callbacks: a call is recorded in     *)
(* `log' together with machine->current at the time of the call.           *)
(***************************************************************************)
EXTENDS Integers, Sequences, FiniteSets, TLC

(***************************************************************************)
(* Bounds and program constants                                            *)
(***************************************************************************)
MaxEvent == 6

NEST_MAX == 5

EVENT_NULL_TRANSITION == 0

NULL == "NULL"

NIL == 0

Events == 0..MaxEvent

(***************************************************************************)
(* The configured state hierarchy (FSM_STATE / FSM_STATE_HELPER objects).  *)
(*   A - B - C - D - E            (E is nested NEST_MAX deep, the maximum  *)
(*   |   `- K                      nesting the engine is built for)        *)
(*   `- G - H                                                              *)
(*   X - Y                        (X is defined without a variable object) *)
(*   P - Q                        (P, Q and R are defined without a        *)
(*   `- R                          variable object)                        *)
(* start and end are the pseudostates of hfsm.c.                           *)
(***************************************************************************)
state_start == "start"

state_end == "end"

UserStates == {"A", "B", "C", "D", "E", "G", "H", "K", "X", "Y", "P", "Q", "R"}

States == UserStates \cup {state_start, state_end}

parent ==
    [s \in States |->
        CASE s = "B" -> "A"
          [] s = "C" -> "B"
          [] s = "D" -> "C"
          [] s = "E" -> "D"
          [] s = "K" -> "B"
          [] s = "G" -> "A"
          [] s = "H" -> "G"
          [] s = "Y" -> "X"
          [] s = "Q" -> "P"
          [] s = "R" -> "P"
          [] OTHER -> NULL]

\* states whose .variable is non-NULL (FSM_STATE gives every state its own)
HasVariable == UserStates \ {"X", "P", "Q", "R"}

\* states whose .entry / .exit / .exec hook is non-NULL
HasEntry == UserStates \ {"G"}

HasExit == UserStates \ {"K"}

HasExec == {"B", "E", "H", "Y"}

\* the variable object a state reads and writes: its own, or the one static
\* null_obj shared by every state defined without one
get_state_variable(state) == IF state \in HasVariable THEN state ELSE "null_obj"

Variables == HasVariable \cup {"null_obj"}

(***************************************************************************)
(* Arena backed doubly linked list (collections.c).  Nodes are the slots   *)
(* 1..capacity of the pool, NIL is the null node pointer.  The payload of  *)
(* a node on the released list is dead (list_insert overwrites it before   *)
(* anything reads it) and is kept as NULL.                                 *)
(***************************************************************************)
LIST_INITIALIZER(self, c) ==
    [self EXCEPT !.released = NIL, !.root = NIL, !.last = NIL,
                 !.capacity = c, !.count = 0]

\* faulty variant: a released node is put behind the head of the released
\* list instead of in front of it
list_push_released_behind(self, node) ==
    IF self.released = NIL
       THEN [self EXCEPT !.prev[node] = NIL, !.payload[node] = NULL,
                         !.next[node] = NIL,
                         !.released = node]
    ELSE IF self.next[self.released] = NIL
       THEN [self EXCEPT !.prev[node] = self.released, !.payload[node] = NULL,
                         !.next[node] = NIL,
                         !.next[self.released] = node]
    ELSE [self EXCEPT !.prev[node] = self.released, !.payload[node] = NULL,
                      !.next[node] = self.next[self.released],
                      !.prev[self.next[self.released]] = node,
                      !.next[self.released] = node]

list_push_released(self, node) ==
    IF self.released = NIL
       THEN [self EXCEPT !.prev[node] = NIL, !.payload[node] = NULL,
                         !.next[node] = NIL,
                         !.released = node]
       ELSE [self EXCEPT !.prev[node] = NIL, !.payload[node] = NULL,
                         !.next[node] = self.released,
                         !.prev[self.released] = node,
                         !.released = node]

list_pop_released(self) ==
    IF self.released = NIL
       THEN [self |-> self, node |-> NIL]
    ELSE IF self.next[self.released] # NIL
       THEN [self |-> [self EXCEPT !.released = self.next[self.released],
                                   !.prev[self.next[self.released]] = NIL],
             node |-> self.released]
    ELSE [self |-> [self EXCEPT !.released = NIL], node |-> self.released]

RECURSIVE list_setup_loop(_, _)
list_setup_loop(self, i) ==
    IF i > self.capacity THEN self
    ELSE list_setup_loop(list_push_released(self, i), i + 1)

\* faulty variant: clearing in constant time, the released list is not rebuilt
list_setup_constant_time(self, capacity) ==
    [self EXCEPT !.root = NIL, !.last = NIL, !.count = 0]

list_setup(self, capacity) ==
    list_setup_loop(LIST_INITIALIZER(self, capacity), 1)

\* the largest payload size offered to an init call, and the size the
\* collections of the other specifications are made with (payloads are
\* modelled by value: their width only matters to the argument check)
MaxBytes == 2

PayloadBytes == MaxBytes

\* a handle is a pointer to the collection, the null pointer, or a pointer
\* that has been passed to free()
NULL_HANDLE == [ptr |-> NULL]

FREED == [ptr |-> "freed"]

\* faulty variant: the sizes are not checked
list_init_unchecked(payload_bytes, capacity, obtained, errno) ==
    IF ~obtained THEN [handle |-> NULL_HANDLE, errno |-> "ENOMEM"]
    ELSE [handle |-> list_setup([released |-> NIL, root |-> NIL, last |-> NIL,
                                 prev |-> [n \in 1..capacity |-> NIL],
                                 next |-> [n \in 1..capacity |-> NIL],
                                 payload |-> [n \in 1..capacity |-> NULL],
                                 capacity |-> capacity, count |-> 0], capacity),
          errno |-> errno]

\* list_init with its environment: `obtained' says whether malloc and calloc
\* both returned a block, `errno' is the value errno had before the call.
\* calloc'ed pool: every link and payload byte is zero
list_init_outcome(payload_bytes, capacity, obtained, errno) ==
    IF payload_bytes = 0 \/ capacity = 0
       THEN [handle |-> NULL_HANDLE, errno |-> "EINVAL"]
    ELSE IF ~obtained
       THEN [handle |-> NULL_HANDLE, errno |-> "ENOMEM"]
    ELSE [handle |-> list_setup([released |-> NIL, root |-> NIL, last |-> NIL,
                                 prev |-> [n \in 1..capacity |-> NIL],
                                 next |-> [n \in 1..capacity |-> NIL],
                                 payload |-> [n \in 1..capacity |-> NULL],
                                 capacity |-> capacity, count |-> 0], capacity),
          errno |-> errno]

\* list_init when the block is obtained
list_init(payload_bytes, capacity) ==
    list_init_outcome(payload_bytes, capacity, TRUE, "0").handle


\* faulty variant: the handle is dereferenced without the NULL test
list_release_unguarded(self) ==
    IF self = NULL_HANDLE THEN [handle |-> self, status |-> "crash"]
    ELSE [handle |-> FREED, status |-> "ok"]

list_release(self) ==
    IF self # NULL_HANDLE THEN [handle |-> FREED, status |-> "ok"]
    ELSE [handle |-> self, status |-> "ok"]

list_clear(self) == list_setup(self, self.capacity)

list_insert_head(self, node) ==
    IF self.root = NIL
       THEN [self EXCEPT !.root = node, !.last = node]
       ELSE [self EXCEPT !.next[node] = self.root,
                         !.prev[self.root] = node,
                         !.root = node]

list_insert_tail(self, node) ==
    IF self.last = NIL
       THEN [self EXCEPT !.root = node, !.last = node]
       ELSE [self EXCEPT !.prev[node] = self.last,
                         !.next[self.last] = node,
                         !.last = node]

\* the for loop of list_insert: walk `index' links from the root;
\* EINVAL when the walk runs off the list before `index' steps
EINVAL == -1

RECURSIVE list_walk(_, _, _, _)
list_walk(self, iter, i, index) ==
    IF i >= index THEN iter
    ELSE IF iter = NIL THEN EINVAL
    ELSE list_walk(self, self.next[iter], i + 1, index)

\* list_insert, index > 0, after the for loop has left `iter'
list_insert_at(self, node, iter) ==
    IF iter = EINVAL
       THEN [self |-> self, node |-> NIL]
    ELSE IF iter = NIL
       THEN [self |-> [self EXCEPT !.prev[node] = self.last,
                                   !.next[self.last] = node,
                                   !.last = node,
                                   !.count = @ + 1],
             node |-> node]
    ELSE [self |-> [self EXCEPT !.next[node] = iter,
                                !.prev[node] = self.prev[iter],
                                !.next[self.prev[iter]] = node,
                                !.prev[iter] = node,
                                !.count = @ + 1],
          node |-> node]

\* faulty variant: the node is linked at the tail whatever the index
list_insert_node_at_tail(self, node, index) ==
    [self |-> [list_insert_tail(self, node) EXCEPT !.count = @ + 1],
     node |-> node]

\* list_insert once the node is initialised and holds the payload
list_insert_node(self, node, index) ==
    IF index = 0
       THEN [self |-> [list_insert_head(self, node) EXCEPT !.count = @ + 1],
             node |-> node]
    ELSE IF index > 0
       THEN list_insert_at(self, node, list_walk(self, self.root, 0, index))
    ELSE [self |-> [list_insert_tail(self, node) EXCEPT !.count = @ + 1],
          node |-> node]

\* list_insert from the answer p of list_pop_released on
list_insert_popped(p, self, index, payload) ==
    IF p.node = NIL THEN [self |-> self, node |-> NIL]
    ELSE list_insert_node([p.self EXCEPT !.prev[p.node] = NIL, !.next[p.node] = NIL,
                                         !.payload[p.node] = payload],
                          p.node, index)

list_insert(self, index, payload) ==
    list_insert_popped(list_pop_released(self), self, index, payload)

\* the four unlinking steps of list_remove
list_remove_root(self, node) ==
    IF self.root = node THEN [self EXCEPT !.root = self.next[node]] ELSE self

\* faulty variant: the tail pointer is not moved when the tail is removed
list_remove_last_kept(self, node) == self

list_remove_last(self, node) ==
    IF self.last = node THEN [self EXCEPT !.last = self.prev[node]] ELSE self

list_remove_prev(self, node) ==
    IF self.prev[node] # NIL
       THEN [self EXCEPT !.next[self.prev[node]] = self.next[node]] ELSE self

list_remove_next(self, node) ==
    IF self.next[node] # NIL
       THEN [self EXCEPT !.prev[self.next[node]] = self.prev[node]] ELSE self

list_remove(self, node) ==
    list_push_released(
        list_remove_next(
            list_remove_prev(
                list_remove_last(
                    list_remove_root([self EXCEPT !.count = @ - 1], node),
                    node),
                node),
            node),
        node)

list_iter(self) == self.root

list_count(self) == self.count

stack_init(payload_bytes, capacity) == list_init(payload_bytes, capacity)

stack_release(self) == list_release(self)

stack_clear(stack) == list_clear(stack)

\* faulty variant: every push takes a new node from the heap instead of the arena
stack_push_allocating(stack, payload) ==
    list_insert_node(
        [stack EXCEPT !.capacity = @ + 1,
                      !.prev = [n \in 1..(stack.capacity + 1) |->
                                   IF n <= stack.capacity THEN stack.prev[n] ELSE NIL],
                      !.next = [n \in 1..(stack.capacity + 1) |->
                                   IF n <= stack.capacity THEN stack.next[n] ELSE NIL],
                      !.payload = [n \in 1..(stack.capacity + 1) |->
                                   IF n <= stack.capacity THEN stack.payload[n] ELSE payload]],
        stack.capacity + 1, 0)

stack_push(stack, payload) == list_insert(stack, 0, payload)

\* stack_pop after list_remove has left the list `removed'
stack_pop_removed(removed, payload) ==
    [self |-> removed, payload |-> payload, ret |-> list_count(removed)]

\* faulty variant: the caller's buffer is overwritten when the stack is empty
stack_pop_clobbering(stack, buf) ==
    IF list_iter(stack) = NIL
       THEN [self |-> stack, payload |-> NULL, ret |-> -1]
       ELSE stack_pop_removed(list_remove(stack, list_iter(stack)),
                              stack.payload[list_iter(stack)])

\* `buf' is the caller's buffer before the call; it is written only on success
stack_pop(stack, buf) ==
    IF list_iter(stack) = NIL
       THEN [self |-> stack, payload |-> buf, ret |-> -1]
       ELSE stack_pop_removed(list_remove(stack, list_iter(stack)),
                              stack.payload[list_iter(stack)])

\* the live payloads of a list, head first
RECURSIVE list_elems(_, _)
list_elems(self, iter) ==
    IF iter = NIL THEN <<>>
    ELSE <<self.payload[iter]>> \o list_elems(self, self.next[iter])

\* the nodes linked from `iter' on, at most n of them
RECURSIVE list_nodes(_, _, _)
list_nodes(self, iter, n) ==
    IF iter = NIL \/ n = 0 THEN <<>>
    ELSE <<iter>> \o list_nodes(self, self.next[iter], n - 1)

Range(seq) == {seq[k] : k \in 1..Len(seq)}

list_add(self, payload) == list_insert(self, -1, payload)

queue_init(payload_bytes, capacity) == list_init(payload_bytes, capacity)

queue_release(self) == list_release(self)

queue_clear(que) == list_clear(que)

\* faulty variant: the new element is put in front of the queue
queue_enq_at_head(que, payload) == list_insert(que, 0, payload)

queue_enq(que, payload) == list_insert(que, -1, payload)

\* queue_deq after list_remove has left the list `removed'
queue_deq_removed(removed, payload) ==
    [self |-> removed, payload |-> payload, ret |-> list_count(removed)]

\* `buf' is the caller's buffer before the call; it is written only on success
queue_deq(que, buf) ==
    IF list_iter(que) = NIL
       THEN [self |-> que, payload |-> buf, ret |-> -1]
       ELSE queue_deq_removed(list_remove(que, list_iter(que)),
                              que.payload[list_iter(que)])

queue_count(que) == list_count(que)

set_init(payload_bytes, capacity) == list_init(payload_bytes, capacity)

set_release(self) == list_release(self)

set_clear(set) == list_clear(set)

\* the scan of set_add: the first node from `iter' on whose payload is
\* byte-equal to `payload', NIL when the scan runs off the end
RECURSIVE set_find(_, _, _)
set_find(set, iter, payload) ==
    IF iter = NIL THEN NIL
    ELSE IF set.payload[iter] = payload THEN iter
    ELSE set_find(set, set.next[iter], payload)

\* faulty variant: set_add stores the payload without looking at the scan
set_add_unconditional(set, payload, found) == list_insert(set, -1, payload)

\* set_add after its scan has ended with `found'
set_add_found(set, payload, found) ==
    IF found # NIL
       THEN [self |-> set, node |-> found]
       ELSE list_insert(set, -1, payload)

set_add(set, payload) ==
    set_add_found(set, payload, set_find(set, list_iter(set), payload))

set_count(set) == list_count(set)

stack_count(stack) == list_count(stack)

(***************************************************************************)
(* Arena backed N-ary tree (collections.c).  Nodes are the slots           *)
(* 1..capacity+1 of the pool; one of them is the root, which holds no      *)
(* element of the host program.  The age and payload of a node on the      *)
(* released list are dead and kept as 0 and NULL.                          *)
(***************************************************************************)
\* memset(self->root->payload, 0x5A, ...): the host program is taken never
\* to store this byte pattern itself
ROOT_PAYLOAD == "ZZ"

TREE_INITIALIZER(self, c) ==
    [self EXCEPT !.released = NIL, !.root = NIL, !.capacity = c, !.count = 0]

tree_push_released(self, node) ==
    [self EXCEPT !.first_child[node] = NIL,
                 !.next_sibling[node] = self.released,
                 !.age[node] = 0,
                 !.payload[node] = NULL,
                 !.released = node]

tree_pop_released(self) ==
    IF self.released = NIL
       THEN [self |-> self, node |-> NIL]
       ELSE [self |-> [self EXCEPT !.released = self.next_sibling[self.released]],
             node |-> self.released]

\* faulty variant: the pool is filled with capacity nodes, the root included
RECURSIVE tree_setup_loop_short(_, _)
tree_setup_loop_short(self, i) ==
    IF i > self.capacity THEN self
    ELSE tree_setup_loop_short(tree_push_released(self, i), i + 1)

RECURSIVE tree_setup_loop(_, _)
tree_setup_loop(self, i) ==
    IF i > self.capacity + 1 THEN self
    ELSE tree_setup_loop(tree_push_released(self, i), i + 1)

\* faulty variant: the root keeps the links it had on the released list
tree_setup_root_linked(p) ==
    [p.self EXCEPT !.root = p.node, !.payload[p.node] = ROOT_PAYLOAD]

\* tree_setup once the root node p.node has been taken from the pool
tree_setup_root(p) ==
    [p.self EXCEPT !.root = p.node,
                   !.first_child[p.node] = NIL,
                   !.next_sibling[p.node] = NIL,
                   !.age[p.node] = 0,
                   !.payload[p.node] = ROOT_PAYLOAD]

tree_setup(self, capacity) ==
    tree_setup_root(tree_pop_released(tree_setup_loop(TREE_INITIALIZER(self, capacity), 1)))

\* tree_init with its environment, as list_init_outcome.
\* calloc'ed pool: every link, age and payload byte is zero
tree_init_outcome(payload_bytes, capacity, obtained, errno) ==
    IF payload_bytes = 0 \/ capacity = 0
       THEN [handle |-> NULL_HANDLE, errno |-> "EINVAL"]
    ELSE IF ~obtained
       THEN [handle |-> NULL_HANDLE, errno |-> "ENOMEM"]
    ELSE [handle |-> tree_setup([released |-> NIL, root |-> NIL,
                                 first_child |-> [n \in 1..(capacity + 1) |-> NIL],
                                 next_sibling |-> [n \in 1..(capacity + 1) |-> NIL],
                                 age |-> [n \in 1..(capacity + 1) |-> 0],
                                 payload |-> [n \in 1..(capacity + 1) |-> NULL],
                                 capacity |-> capacity, count |-> 0], capacity),
          errno |-> errno]

\* tree_init when the block is obtained
tree_init(payload_bytes, capacity) ==
    tree_init_outcome(payload_bytes, capacity, TRUE, "0").handle

tree_release(self) ==
    IF self # NULL_HANDLE THEN [handle |-> FREED, status |-> "ok"]
    ELSE [handle |-> self, status |-> "ok"]

tree_clear(self) == tree_setup(self, self.capacity)

\* while (child->next_sibling != NULL) child = child->next_sibling;
RECURSIVE tree_last_sibling(_, _)
tree_last_sibling(self, child) ==
    IF self.next_sibling[child] = NIL THEN child
    ELSE tree_last_sibling(self, self.next_sibling[child])

\* the node p.node taken from the pool becomes the first child of `node'
tree_insert_first_child(p, node, age, payload) ==
    IF p.node = NIL
       THEN [self |-> [p.self EXCEPT !.first_child[node] = NIL], node |-> NIL]
       ELSE [self |-> [p.self EXCEPT !.first_child[node] = p.node,
                                     !.first_child[p.node] = NIL,
                                     !.next_sibling[p.node] = NIL,
                                     !.age[p.node] = age,
                                     !.payload[p.node] = payload,
                                     !.count = @ + 1],
             node |-> p.node]

\* the node p.node taken from the pool becomes the next sibling of `child'
tree_insert_next_sibling(p, child, age, payload) ==
    IF p.node = NIL
       THEN [self |-> [p.self EXCEPT !.next_sibling[child] = NIL], node |-> NIL]
       ELSE [self |-> [p.self EXCEPT !.next_sibling[child] = p.node,
                                     !.first_child[p.node] = NIL,
                                     !.next_sibling[p.node] = NIL,
                                     !.age[p.node] = age,
                                     !.payload[p.node] = payload,
                                     !.count = @ + 1],
             node |-> p.node]

\* faulty variant: the new node is put in front of the children
tree_insert_matched_in_front(self, node, age, payload) ==
    IF self.released = NIL
       THEN [self |-> self, node |-> NIL]
       ELSE [self |-> [self EXCEPT !.released = self.next_sibling[self.released],
                                   !.first_child[node] = self.released,
                                   !.first_child[self.released] = NIL,
                                   !.next_sibling[self.released] = self.first_child[node],
                                   !.age[self.released] = age,
                                   !.payload[self.released] = payload,
                                   !.count = @ + 1],
             node |-> self.released]

\* tree_insert_inner where the payload of `node' equals parent
tree_insert_matched(self, node, age, payload) ==
    IF self.first_child[node] = NIL
       THEN tree_insert_first_child(tree_pop_released(self), node, age, payload)
       ELSE tree_insert_next_sibling(tree_pop_released(self),
                                     tree_last_sibling(self, self.first_child[node]),
                                     age, payload)

RECURSIVE tree_insert_inner(_, _, _, _, _)

\* the search of the next sibling's subtree
tree_insert_sibling(self, node, age, parent_payload, payload) ==
    IF self.next_sibling[node] # NIL
       THEN tree_insert_inner(self, self.next_sibling[node], age, parent_payload, payload)
       ELSE [self |-> self, node |-> NIL]

\* faulty variant: the first child's subtree is not searched
tree_insert_child_skipped(r, node, age, parent_payload, payload) == r

\* faulty variant: the first child's subtree is searched at the age of its parent
tree_insert_child_same_age(r, node, age, parent_payload, payload) ==
    IF r.node = NIL /\ r.self.first_child[node] # NIL
       THEN tree_insert_inner(r.self, r.self.first_child[node], age, parent_payload, payload)
       ELSE r

\* the search of the first child's subtree, after the siblings have answered r
tree_insert_child(r, node, age, parent_payload, payload) ==
    IF r.node = NIL /\ r.self.first_child[node] # NIL
       THEN tree_insert_inner(r.self, r.self.first_child[node], age + 1, parent_payload, payload)
       ELSE r

tree_insert_inner(self, node, age, parent_payload, payload) ==
    IF self.payload[node] = parent_payload
       THEN tree_insert_matched(self, node, age, payload)
       ELSE tree_insert_child(tree_insert_sibling(self, node, age, parent_payload, payload),
                              node, age, parent_payload, payload)

tree_insert(self, parent_payload, payload) ==
    tree_insert_inner(self, self.root, 1,
                      IF parent_payload = NULL THEN self.payload[self.root] ELSE parent_payload,
                      payload)

tree_count(self) == self.count

(***************************************************************************)
(* Tree iterator: struct tree_iter, with the node the payload pointer      *)
(* points into in place of the pointer.                                    *)
(***************************************************************************)
\* no iterator: the handle is NULL
TREE_ITER_NULL == [live |-> FALSE, fringe |-> NULL, age |-> 0, node |-> NIL]

\* the two pushes of tree_iter_next
tree_iter_push(fringe, node) ==
    IF node # NIL THEN stack_push(fringe, node).self ELSE fringe

\* faulty variant: the first child is pushed before the next sibling
tree_iter_popped_sibling_first(self, tree, p) ==
    IF p.ret = -1
       THEN [iter |-> self, ret |-> NIL]
       ELSE [iter |-> [self EXCEPT
                          !.fringe = tree_iter_push(
                                         tree_iter_push(p.self, tree.first_child[p.payload]),
                                         tree.next_sibling[p.payload]),
                          !.age = tree.age[p.payload],
                          !.node = p.payload],
             ret |-> p.payload]

\* tree_iter_next after stack_pop has answered p
tree_iter_popped(self, tree, p) ==
    IF p.ret = -1
       THEN [iter |-> self, ret |-> NIL]
       ELSE [iter |-> [self EXCEPT
                          !.fringe = tree_iter_push(
                                         tree_iter_push(p.self, tree.next_sibling[p.payload]),
                                         tree.first_child[p.payload]),
                          !.age = tree.age[p.payload],
                          !.node = p.payload],
             ret |-> p.payload]

tree_iter_next(self, tree) ==
    IF stack_count(self.fringe) = 0
       THEN [iter |-> self, ret |-> NIL]
       ELSE tree_iter_popped(self, tree, stack_pop(self.fringe, NIL))

\* the iterator tree_iter_get has built before it calls tree_iter_next
tree_iter_seed(tree) ==
    [live |-> TRUE,
     fringe |-> tree_iter_push(stack_init(PayloadBytes, tree.capacity), tree.first_child[tree.root]),
     age |-> 0, node |-> NIL]

\* tree_iter_get after its tree_iter_next has answered r
tree_iter_first(r) ==
    IF r.ret = NIL THEN [iter |-> TREE_ITER_NULL, ret |-> NIL] ELSE r

tree_iter_get(tree) == tree_iter_first(tree_iter_next(tree_iter_seed(tree), tree))

tree_iter_release(self) == TREE_ITER_NULL

(***************************************************************************)
(* Guards, actions and transition tables (struct fsm_trans arrays).  A     *)
(* table ends at its first row whose from is NULL (FSM_TRANS_TERMINATOR).  *)
(***************************************************************************)
Conds == {"cond_1"}

Row(f, e, c, a, t) == [from |-> f, event |-> e, cond |-> c, action |-> a, to |-> t]

FSM_TRANS_TERMINATOR == Row(NULL, 0, NULL, NULL, NULL)

\* rows attached at several levels of the hierarchy
TableNav ==
    << Row("start", 1, NULL, NULL, "E"),
       Row("start", 2, NULL, NULL, "D"),
       Row("start", 3, NULL, NULL, "H"),
       Row("A", 3, NULL, NULL, "H"),
       Row("A", 4, NULL, "action_1", "Y"),
       Row("X", 3, NULL, NULL, "K"),
       Row("C", 5, "cond_1", "action_2", "G"),
       Row("C", 5, NULL, NULL, "H"),
       Row("B", 5, NULL, NULL, "K"),
       Row("D", 6, NULL, "action_1", "D"),
       Row("X", 4, NULL, NULL, "A"),
       Row("C", 1, NULL, NULL, "E"),
       Row("H", 1, "cond_1", "action_2", "H"),
       Row("K", 2, NULL, NULL, "X"),
       Row("G", 2, NULL, NULL, "B"),
       Row("K", 6, NULL, NULL, "C"),
       Row("X", 5, NULL, NULL, "C"),
       FSM_TRANS_TERMINATOR >>

\* rows keyed on the null event, and rows behind the terminator
TableNull ==
    << Row("start", 0, NULL, NULL, "G"),
       Row("G", 1, NULL, NULL, "H"),
       Row("H", 0, NULL, NULL, "K"),
       Row("K", 0, NULL, "action_1", "Y"),
       Row("Y", 0, "cond_1", NULL, "G"),
       Row("A", 0, NULL, NULL, "X"),
       Row("Y", 2, "cond_1", "action_2", "H"),
       Row("K", 1, "cond_1", NULL, "G"),
       FSM_TRANS_TERMINATOR,
       Row("start", 1, NULL, NULL, "A"),
       Row("G", 2, NULL, NULL, "Y") >>

\* the guarded single row of test/hfsm.cpp, behind a guarded initial transition
TableCond ==
    << Row("start", 0, "cond_1", NULL, "B"),
       Row("start", 1, "cond_1", "action_1", "A"),
       FSM_TRANS_TERMINATOR >>

TableEmpty == << FSM_TRANS_TERMINATOR >>

\* a table over the states defined without a variable object
TableShared ==
    << Row("start", 0, NULL, NULL, "Q"),
       Row("Q", 1, NULL, NULL, "R"),
       Row("Q", 2, NULL, "action_1", "P"),
       Row("P", 3, "cond_1", NULL, "X"),
       FSM_TRANS_TERMINATOR >>

Tables == << TableNav, TableNull, TableCond, TableEmpty, TableShared >>

\* the tables whose states have a variable object each, X apart
OwnVariableTables == 1..(Len(Tables) - 1)

(***************************************************************************)
(* The engine (hfsm.c).  Every operator takes and returns the world `w':   *)
(* the machine's fields, the history slots of the static state variables,  *)
(* the calls made to user callbacks so far in this API call, and whether   *)
(* the process is still running                                            *)
(*   status = "ok"    running                                              *)
(*            "abort" an assert() failed (build without NDEBUG)            *)
(*            "segv"  a NULL state was dereferenced (build with NDEBUG)    *)
(*            "overflow" fsm_change_state recursed without end             *)
(***************************************************************************)
Call(h, s, c, cur, hist, r) ==
    [hook |-> h, state |-> s, cmpl |-> c, current |-> cur, history |-> hist, row |-> r]

\* what `log' records: hook = "entry", "exit", "exec", "cond", "action" is a
\* call of that user callback; "change_state" marks a call of
\* fsm_change_state(state), "row" the table row that fsm_state_transit
\* matched, "null_dispatch" the null event dispatch that ends fsm_init and
\* fsm_transition, "DEBUG" the trace line printed between exits and entries
Logged(w, h, s, c, r) ==
    [w EXCEPT !.log = Append(@, Call(h, s, c, w.current, w.history, r))]

entry_if_can_be(w, state, cmpl) ==
    IF w.status # "ok" THEN w
    ELSE IF state = NULL THEN [w EXCEPT !.status = "segv"]
    ELSE IF state \in HasEntry THEN Logged(w, "entry", state, cmpl, 0)
    ELSE w

\* faulty variant: the exec hooks of the ancestors run as well
RECURSIVE exec_chain(_, _)
exec_chain(w, state) ==
    IF state = NULL THEN w
    ELSE exec_chain(IF state \in HasExec THEN Logged(w, "exec", state, FALSE, 0) ELSE w,
                    parent[state])

exec_if_can_be_propagating(w) == exec_chain(w, w.current)

exec_if_can_be(w) ==
    LET state == w.current
    IN  IF state \in HasExec THEN Logged(w, "exec", state, FALSE, 0) ELSE w

\* if (state->parent != NULL) get_state_variable(state->parent)->history = state;
exit_history(w, state) ==
    IF parent[state] # NULL
       THEN [w EXCEPT !.history[get_state_variable(parent[state])] = state]
       ELSE w

\* faulty variant: the exit hook runs but the parent does not record the child
exit_if_can_be_forgetful(w, state, cmpl) ==
    IF w.status # "ok" THEN w
    ELSE IF state = NULL THEN [w EXCEPT !.status = "segv"]
    ELSE IF state \in HasExit THEN Logged(w, "exit", state, cmpl, 0)
    ELSE w

exit_if_can_be(w, state, cmpl) ==
    IF w.status # "ok" THEN w
    ELSE IF state = NULL THEN [w EXCEPT !.status = "segv"]
    ELSE exit_history(IF state \in HasExit THEN Logged(w, "exit", state, cmpl, 0) ELSE w,
                      state)

\* assert(cond): aborts the process unless compiled with NDEBUG
assert(w, cond) ==
    IF w.status = "ok" /\ ~cond /\ ~w.ndebug THEN [w EXCEPT !.status = "abort"] ELSE w

\* for (s = state; s != NULL; s = s->parent) stack_push(stack, &s);
RECURSIVE push_ancestors(_, _)
push_ancestors(stack, state) ==
    IF state = NULL THEN stack
    ELSE push_ancestors(stack_push(stack, state).self, parent[state])

\* do { src_state = dest_state = NULL; pop both } while (src_state == dest_state);
\* yields the machine and the locals src_state, dest_state, count; both stacks
\* empty at once would pop NULL == NULL for ever: hang
RECURSIVE pop_common(_)

pop_compare(w, ps, pd) ==
    IF ps.payload = pd.payload
       THEN IF ps.ret = -1 /\ pd.ret = -1
               THEN [w |-> [w EXCEPT !.status = "hang"], src_state |-> NULL,
                     dest_state |-> NULL, count |-> -1]
               ELSE pop_common([w EXCEPT !.src_ancestors = ps.self,
                                         !.dest_ancestors = pd.self])
       ELSE [w |-> [w EXCEPT !.src_ancestors = ps.self, !.dest_ancestors = pd.self],
             src_state |-> ps.payload, dest_state |-> pd.payload, count |-> pd.ret]

pop_common(w) ==
    pop_compare(w, stack_pop(w.src_ancestors, NULL), stack_pop(w.dest_ancestors, NULL))

\* for (s = current; s != ancestor; s = s->parent) { assert; exit_if_can_be }
RECURSIVE exit_loop(_, _, _)
\* faulty variant: the exit phase does not stop below the common ancestor
exit_loop_to_root(w, src_state, ancestor) ==
    IF w.status # "ok" \/ src_state = NULL THEN w
    ELSE exit_loop(exit_if_can_be(w, src_state, parent[src_state] = ancestor),
                   parent[src_state], ancestor)

\* faulty variant: every exit hook is told that the exit phase is complete
exit_loop_all_completed(w, src_state, ancestor) ==
    IF w.status # "ok" \/ src_state = ancestor THEN w
    ELSE IF src_state = NULL
       THEN exit_if_can_be(assert(w, FALSE), src_state, TRUE)
    ELSE exit_loop(exit_if_can_be(w, src_state, TRUE), parent[src_state], ancestor)

exit_loop(w, src_state, ancestor) ==
    IF w.status # "ok" \/ src_state = ancestor THEN w
    ELSE IF src_state = NULL
       THEN exit_if_can_be(assert(w, src_state # NULL), src_state, FALSE)
    ELSE exit_loop(exit_if_can_be(w, src_state, parent[src_state] = ancestor),
                   parent[src_state], ancestor)

\* do { entry_if_can_be(dest_state, count == 0); count = pop } while (count >= 0);
\* yields the machine and the dest_state left in the local variable
RECURSIVE entry_loop(_, _, _)

entry_popped(w, p) ==
    IF p.ret >= 0
       THEN entry_loop([w EXCEPT !.dest_ancestors = p.self], p.payload, p.ret)
       ELSE [w |-> [w EXCEPT !.dest_ancestors = p.self], dest_state |-> p.payload]

entry_pop(w, dest_state) ==
    IF w.status # "ok" THEN [w |-> w, dest_state |-> dest_state]
    ELSE entry_popped(w, stack_pop(w.dest_ancestors, dest_state))

\* faulty variant: every entry hook is told that the entry phase is complete
entry_loop_all_completed(w, dest_state, count) ==
    entry_pop(entry_if_can_be(w, dest_state, TRUE), dest_state)

entry_loop(w, dest_state, count) ==
    entry_pop(entry_if_can_be(w, dest_state, count = 0), dest_state)

RECURSIVE fsm_change_state(_, _)

\* the recursive call fsm_change_state(machine, history): `resumed' holds
\* the (current, target, history slots) of the recursive calls made so far in
\* this API call; the same triple a second time is a recursion that never
\* returns (the hooks answer the same way again): status "overflow"
fsm_change_state_resume(w, target) ==
    IF <<w.current, target, w.history>> \in w.resumed
       THEN [w EXCEPT !.status = "overflow"]
       ELSE fsm_change_state([w EXCEPT !.resumed = @ \cup {<<w.current, target, w.history>>}],
                             target)

\* faulty variant: the history of the state just entered is not resumed
fsm_change_state_history_ignored(e) == e.w

\* if (get_state_variable(dest_state)->history != NULL) fsm_change_state(...)
fsm_change_state_history(e) ==
    IF e.w.status # "ok" THEN e.w
    ELSE IF e.w.history[get_state_variable(e.dest_state)] # NULL
       THEN fsm_change_state_resume(e.w, e.w.history[get_state_variable(e.dest_state)])
    ELSE e.w

\* faulty variant: current becomes the first state entered, not the target
fsm_change_state_entry_top(w, new_state, p) ==
    fsm_change_state_history(
        entry_loop(IF w.status = "ok"
                      THEN [Logged(w, "DEBUG", new_state, FALSE, 0)
                               EXCEPT !.current = p.dest_state]
                      ELSE w,
                   p.dest_state, p.count))

\* DEBUG(...); machine->current = new_state; then the entry loop
fsm_change_state_entry(w, new_state, p) ==
    fsm_change_state_history(
        entry_loop(IF w.status = "ok"
                      THEN [Logged(w, "DEBUG", new_state, FALSE, 0)
                               EXCEPT !.current = new_state]
                      ELSE w,
                   p.dest_state, p.count))

\* assert(dest_state != NULL); ancestor = ...; then the exit loop
fsm_change_state_exit(new_state, p) ==
    IF p.w.status # "ok" THEN p.w
    ELSE fsm_change_state_entry(
             exit_loop(assert(p.w, p.dest_state # NULL), p.w.current,
                       IF p.src_state # NULL THEN parent[p.src_state] ELSE p.w.current),
             new_state, p)

\* stack_clear and the push loop, for both stacks
fsm_change_state_push(w, new_state) ==
    [w EXCEPT !.src_ancestors = push_ancestors(stack_clear(@), w.current),
              !.dest_ancestors = push_ancestors(stack_clear(@), new_state)]

fsm_change_state(w, new_state) ==
    IF w.status # "ok" THEN w
    ELSE IF w.current = new_state
       THEN entry_if_can_be(
                exit_if_can_be(Logged(w, "change_state", new_state, FALSE, 0),
                               w.current, TRUE),
                new_state, TRUE)
    ELSE fsm_change_state_exit(
             new_state,
             pop_common(fsm_change_state_push(
                            Logged(w, "change_state", new_state, FALSE, 0), new_state)))

\* the body of the if of fsm_state_transit for row i: guard, action, state change
fsm_state_transit_row(w, i) ==
    IF Tables[w.corresps][i].cond = NULL \/ w.cond_param[Tables[w.corresps][i].cond]
       THEN fsm_change_state(
                IF Tables[w.corresps][i].action # NULL
                   THEN Logged(w, "action", NULL, FALSE, i) ELSE w,
                Tables[w.corresps][i].to)
       ELSE w

fsm_state_transit_cond(w, i) ==
    fsm_state_transit_row(
        IF Tables[w.corresps][i].cond # NULL THEN Logged(w, "cond", NULL, FALSE, i) ELSE w,
        i)

\* the scan of fsm_state_transit from row i on
RECURSIVE fsm_state_transit_from(_, _, _, _)
\* faulty variant: a row whose guard is false does not handle the event, the
\* scan goes on with the next row
fsm_state_transit_from_skip_guarded(w, state, event, i) ==
    LET corr == Tables[w.corresps][i]
    IN  IF corr.from = NULL THEN [w |-> w, ret |-> FALSE]
        ELSE IF corr.from = state /\ corr.event = event
           THEN IF corr.cond = NULL \/ w.cond_param[corr.cond]
                   THEN [w |-> fsm_state_transit_cond(Logged(w, "row", state, FALSE, i), i),
                         ret |-> TRUE]
                   ELSE fsm_state_transit_from(
                            fsm_state_transit_cond(Logged(w, "row", state, FALSE, i), i),
                            state, event, i + 1)
        ELSE fsm_state_transit_from(w, state, event, i + 1)

\* faulty variant: the action runs after the state change
fsm_state_transit_from_action_last(w, state, event, i) ==
    LET corr == Tables[w.corresps][i]
    IN  IF corr.from = NULL THEN [w |-> w, ret |-> FALSE]
        ELSE IF corr.from = state /\ corr.event = event
           THEN LET w0 == Logged(w, "row", state, FALSE, i)
                    w1 == IF corr.cond # NULL THEN Logged(w0, "cond", NULL, FALSE, i) ELSE w0
                    ok == corr.cond = NULL \/ w.cond_param[corr.cond]
                    w2 == IF ok THEN fsm_change_state(w1, corr.to) ELSE w1
                IN  [w |-> IF ok /\ corr.action # NULL /\ w2.status = "ok"
                              THEN Logged(w2, "action", NULL, FALSE, i) ELSE w2,
                     ret |-> TRUE]
        ELSE fsm_state_transit_from(w, state, event, i + 1)

\* faulty variant: rows are matched on the event alone
fsm_state_transit_from_any_state(w, state, event, i) ==
    LET corr == Tables[w.corresps][i]
    IN  IF corr.from = NULL THEN [w |-> w, ret |-> FALSE]
        ELSE IF corr.event = event
           THEN LET w0 == Logged(w, "row", state, FALSE, i)
                    w1 == IF corr.cond # NULL THEN Logged(w0, "cond", NULL, FALSE, i) ELSE w0
                    ok == corr.cond = NULL \/ w.cond_param[corr.cond]
                    w2 == IF ok /\ corr.action # NULL
                             THEN Logged(w1, "action", NULL, FALSE, i) ELSE w1
                IN  [w |-> IF ok THEN fsm_change_state(w2, corr.to) ELSE w2,
                     ret |-> TRUE]
        ELSE fsm_state_transit_from(w, state, event, i + 1)

\* faulty variant: of the rows matching (state, event) in front of the
\* terminator the last one is used, not the first
fsm_state_transit_from_last_match(w, state, event, i) ==
    IF Tables[w.corresps][i].from = NULL THEN [w |-> w, ret |-> FALSE]
    ELSE IF /\ Tables[w.corresps][i].from = state
            /\ Tables[w.corresps][i].event = event
            /\ \A j \in (i + 1)..Len(Tables[w.corresps]) :
                  (\A k \in (i + 1)..j : Tables[w.corresps][k].from # NULL)
                     => ~(/\ Tables[w.corresps][j].from = state
                          /\ Tables[w.corresps][j].event = event)
       THEN [w |-> fsm_state_transit_cond(Logged(w, "row", state, FALSE, i), i),
             ret |-> TRUE]
    ELSE fsm_state_transit_from(w, state, event, i + 1)

fsm_state_transit_from(w, state, event, i) ==
    IF Tables[w.corresps][i].from = NULL THEN [w |-> w, ret |-> FALSE]
    ELSE IF Tables[w.corresps][i].from = state /\ Tables[w.corresps][i].event = event
       THEN [w |-> fsm_state_transit_cond(Logged(w, "row", state, FALSE, i), i),
             ret |-> TRUE]
    ELSE fsm_state_transit_from(w, state, event, i + 1)

fsm_state_transit(w, state, event) ==
    IF w.status # "ok" THEN [w |-> w, ret |-> TRUE]
    ELSE fsm_state_transit_from(w, state, event, 1)

\* while ((state != NULL) && !fsm_state_transit(machine, state, event)) state = state->parent;
RECURSIVE bubble(_, _, _)

bubble_next(r, state, event) ==
    IF r.ret THEN r.w ELSE bubble(r.w, parent[state], event)

\* faulty variant: only the current state is asked, its ancestors are not
bubble_current_only(w, state, event) ==
    IF state = NULL THEN w ELSE fsm_state_transit(w, state, event).w

bubble(w, state, event) ==
    IF state = NULL THEN w
    ELSE bubble_next(fsm_state_transit(w, state, event), state, event)

\* faulty variant: the null event is dispatched only after a state change
null_transition_after_change(w) ==
    IF \A i \in 1..Len(w.log) : w.log[i].hook # "change_state" THEN w
    ELSE IF w.status # "ok" THEN w
    ELSE fsm_state_transit(Logged(w, "null_dispatch", w.current, FALSE, 0),
                           w.current, EVENT_NULL_TRANSITION).w

\* faulty variant: the null event bubbles to the ancestors like any event
null_transition_bubbling(w) ==
    IF w.status # "ok" THEN w
    ELSE bubble(Logged(w, "null_dispatch", w.current, FALSE, 0),
                w.current, EVENT_NULL_TRANSITION)

\* faulty variant: the null event is not dispatched
null_transition_skipped(w) == w

\* fsm_state_transit(machine, machine->current, EVENT_NULL_TRANSITION);
null_transition(w) ==
    IF w.status # "ok" THEN w
    ELSE fsm_state_transit(Logged(w, "null_dispatch", w.current, FALSE, 0),
                           w.current, EVENT_NULL_TRANSITION).w

(***************************************************************************)
(* State of the program                                                    *)
(***************************************************************************)
VARIABLES
    machine,        \* "none": no machine, "live": fsm_init returned one, "dead": process aborted
    current,        \* machine->current
    corresps,       \* machine->corresps: index into Tables
    src_ancestors,  \* machine->src_ancestors
    dest_ancestors, \* machine->dest_ancestors
    history,        \* .history of every state variable object (static storage)
    cond_param,     \* what each guard function returns
    left_with,      \* history variable of the model: for every state, the direct child
                    \* that was active when the state was last left (NULL: never left,
                    \* or left while it was the current state itself)
    log,            \* callbacks run by the last API call, in order
    call            \* the last API call: its arguments, the state before it, its result

\* a collection of the host program, used through the API of collections.c
VARIABLES
    kind,           \* which API the collection is used through: "list", "stack",
                    \* "queue" or "set"; "none" while the machine is being driven
    coll,           \* the collection object
    shadow,         \* history variable of the model: the payloads the successful
                    \* calls so far have left in the collection, head first
    collcall        \* the last call on the collection: its arguments, the
                    \* collection before it, its result

\* a tree of the host program and the iterator it walks it with
VARIABLES
    tree,           \* the tree object; NULL while no tree is in use
    treeiter,       \* the tree iterator (TREE_ITER_NULL: no iterator)
    yields,         \* history variable of the model: what the iterator has
                    \* yielded since tree_iter_get, in order
    born,           \* history variable of the model: the nodes of the tree
                    \* in the order they were inserted
    treecall        \* the last call on the tree or the iterator

fvars == <<machine, current, corresps, src_ancestors, dest_ancestors, history,
           cond_param, left_with, log, call>>

cvars == <<kind, coll, shadow, collcall>>

tvars == <<tree, treeiter, yields, born, treecall>>

vars == <<machine, current, corresps, src_ancestors, dest_ancestors, history,
          cond_param, left_with, log, call, kind, coll, shadow, collcall,
          tree, treeiter, yields, born, treecall>>

\* the world an API call starts from; ndebug is the build: TRUE when assert()
\* is compiled out
World(ndebug) ==
    [current |-> current, corresps |-> corresps,
     src_ancestors |-> src_ancestors, dest_ancestors |-> dest_ancestors,
     history |-> history, cond_param |-> cond_param, ndebug |-> ndebug,
     log |-> <<>>, resumed |-> {}, status |-> "ok"]

CallRec(op, ev, ret, status) ==
    [op |-> op, event |-> ev, current |-> current, history |-> history,
     left_with |-> left_with, machine |-> machine, ret |-> ret, status |-> status]

\* the chain root .. s of a state, and what leaving `old' for `new' does to left_with
RECURSIVE ChainRec(_)
ChainRec(s) == IF s = NULL THEN <<>> ELSE Append(ChainRec(parent[s]), s)

Chains == [s \in States \cup {NULL} |-> ChainRec(s)]

Chain(s) == Chains[s]

Depth(s) == Len(Chain(s))

InChain(a, s) == \E k \in 1..Depth(s) : Chain(s)[k] = a

Leave(lw, old, new) ==
    [P \in States |->
        IF InChain(P, old) /\ ~InChain(P, new)
           THEN IF P = old THEN NULL ELSE Chain(old)[Depth(P) + 1]
           ELSE lw[P]]

\* left_with after the first n entries of the log lg: machine->current moves at
\* every "DEBUG" entry, from .current to .state
RECURSIVE LeftAfter(_, _, _)
LeftAfter(lw, lg, n) ==
    IF n = 0 THEN lw
    ELSE LET before == LeftAfter(lw, lg, n - 1)
         IN  IF lg[n].hook = "DEBUG"
                THEN Leave(before, lg[n].current, lg[n].state)
                ELSE before

Commit(w, op, ev, ret, live) ==
    /\ machine' = IF w.status # "ok" THEN "dead" ELSE live
    /\ current' = w.current
    /\ corresps' = w.corresps
    /\ src_ancestors' = w.src_ancestors
    /\ dest_ancestors' = w.dest_ancestors
    /\ history' = w.history
    /\ log' = w.log
    /\ left_with' = LeftAfter(left_with, w.log, Len(w.log))
    /\ call' = CallRec(op, ev, ret, w.status)
    /\ UNCHANGED cond_param
    /\ UNCHANGED <<cvars, tvars>>

\* no machine has been created yet
NoMachine ==
    /\ machine = "none"
    /\ current = NULL
    /\ corresps = 0
    /\ src_ancestors = stack_init(PayloadBytes, NEST_MAX)
    /\ dest_ancestors = stack_init(PayloadBytes, NEST_MAX)
    /\ history = [v \in Variables |-> NULL]
    /\ left_with = [s \in States |-> NULL]
    /\ log = <<>>
    /\ call = [op |-> "none", event |-> 0, current |-> NULL, history |-> history,
               left_with |-> left_with, machine |-> "none", ret |-> "void", status |-> "ok"]

\* the host program has no collection of its own
NoCollection ==
    /\ kind = "none"
    /\ coll = NULL_HANDLE
    /\ shadow = <<>>
    /\ collcall = [op |-> "none", payload_bytes |-> 0, capacity |-> 0,
                   obtained |-> TRUE, errno |-> "0", status |-> "ok",
                   before |-> coll]

\* the host program has no tree
NoTree ==
    /\ tree = NULL
    /\ treeiter = TREE_ITER_NULL
    /\ yields = <<>>
    /\ born = <<>>
    /\ treecall = NULL

Init ==
    /\ NoMachine
    /\ cond_param \in [Conds -> BOOLEAN]
    /\ NoCollection
    /\ NoTree

\* fsm_init(corresps): table 0 is the NULL pointer
fsm_init(t) ==
    /\ machine = "none"
    /\ IF t = 0
          THEN /\ call' = CallRec("fsm_init", t, NULL, "ok")
               /\ log' = <<>>
               /\ UNCHANGED <<machine, current, corresps, src_ancestors,
                              dest_ancestors, history, cond_param, left_with>>
               /\ UNCHANGED <<cvars, tvars>>
          ELSE Commit(null_transition([World(FALSE) EXCEPT
                                          !.current = state_start, !.corresps = t,
                                          !.src_ancestors = stack_init(PayloadBytes, NEST_MAX),
                                          !.dest_ancestors = stack_init(PayloadBytes, NEST_MAX)]),
                      "fsm_init", t, "machine", "live")

\* faulty variant: fsm_term resets the history slots of the state definitions
fsm_term_forgetting ==
    /\ machine = "live"
    /\ Commit([fsm_change_state(World(FALSE), state_end)
                  EXCEPT !.history = [v \in Variables |-> NULL]],
              "fsm_term", 0, "0", "none")

fsm_term ==
    /\ machine = "live"
    /\ Commit(fsm_change_state(World(FALSE), state_end), "fsm_term", 0, "0", "none")

\* faulty variant: fsm_term(NULL) reports success
fsm_term_null_succeeds ==
    /\ machine = "none"
    /\ call' = CallRec("fsm_term", 0, "0", "ok")
    /\ log' = <<>>
    /\ UNCHANGED <<machine, current, corresps, src_ancestors, dest_ancestors,
                   history, cond_param, left_with>>
    /\ UNCHANGED <<cvars, tvars>>

fsm_term_null ==
    /\ machine = "none"
    /\ call' = CallRec("fsm_term", 0, "-1", "ok")
    /\ log' = <<>>
    /\ UNCHANGED <<machine, current, corresps, src_ancestors, dest_ancestors,
                   history, cond_param, left_with>>
    /\ UNCHANGED <<cvars, tvars>>

\* faulty variant: the null event is dispatched a second time
fsm_transition_run_null_twice(event, ndebug) ==
    null_transition(null_transition(bubble(World(ndebug), current, event)))

\* fsm_transition(machine, event) up to its return or the crash of the process
fsm_transition_run(event, ndebug) ==
    null_transition(bubble(World(ndebug), current, event))

\* fsm_transition in a build with assert() enabled, or where no assert() fails
fsm_transition(event) ==
    /\ machine = "live"
    /\ Commit(fsm_transition_run(event, FALSE), "fsm_transition", event, "void", "live")

\* fsm_transition in a build with NDEBUG, where an assert() would have failed:
\* the two builds differ only from the failed assert() on
fsm_transition_ndebug(event) ==
    /\ machine = "live"
    /\ fsm_transition_run(event, FALSE).status = "abort"
    /\ Commit(fsm_transition_run(event, TRUE), "fsm_transition", event, "void", "live")

\* fsm_transition(NULL, event): if (machine == NULL) return;
fsm_transition_null(event) ==
    /\ machine = "none"
    /\ call' = CallRec("fsm_transition", event, "void", "ok")
    /\ log' = <<>>
    /\ UNCHANGED <<machine, current, corresps, src_ancestors, dest_ancestors,
                   history, cond_param, left_with>>
    /\ UNCHANGED <<cvars, tvars>>

fsm_update ==
    /\ machine = "live"
    /\ Commit(exec_if_can_be(World(FALSE)), "fsm_update", 0, "void", "live")

\* fsm_update(NULL): if (machine == NULL) return;
fsm_update_null ==
    /\ machine = "none"
    /\ call' = CallRec("fsm_update", 0, "void", "ok")
    /\ log' = <<>>
    /\ UNCHANGED <<machine, current, corresps, src_ancestors, dest_ancestors,
                   history, cond_param, left_with>>
    /\ UNCHANGED <<cvars, tvars>>

\* the host program changes what a guard will answer (cond_only_param of the tests)
set_cond_param(c, b) ==
    /\ machine # "dead"
    /\ cond_param[c] # b
    /\ cond_param' = [cond_param EXCEPT ![c] = b]
    /\ call' = CallRec("set_cond_param", 0, "void", "ok")
    /\ log' = <<>>
    /\ UNCHANGED <<machine, current, corresps, src_ancestors, dest_ancestors,
                   history, left_with>>
    /\ UNCHANGED <<cvars, tvars>>

Next ==
    \/ \E t \in {0} \cup OwnVariableTables : fsm_init(t)
    \/ fsm_term
    \/ fsm_term_null
    \/ \E event \in Events : fsm_transition(event)
    \/ \E event \in Events : fsm_transition_ndebug(event)
    \/ \E event \in Events : fsm_transition_null(event)
    \/ fsm_update
    \/ fsm_update_null
    \/ \E c \in Conds, b \in BOOLEAN : set_cond_param(c, b)

Spec == Init /\ [][Next]_vars

\* the same host program, which may also use the table over the states
\* defined without a variable object
NextShared ==
    \/ \E t \in 0..Len(Tables) : fsm_init(t)
    \/ fsm_term
    \/ fsm_term_null
    \/ \E event \in Events : fsm_transition(event)
    \/ \E event \in Events : fsm_transition_ndebug(event)
    \/ \E event \in Events : fsm_transition_null(event)
    \/ fsm_update
    \/ fsm_update_null
    \/ \E c \in Conds, b \in BOOLEAN : set_cond_param(c, b)

SpecShared == Init /\ [][NextShared]_vars

(***************************************************************************)
(* The collections on their own: one list, stack, queue or set of Cap      *)
(* slots, driven through its API by a host program.  Payloads are values   *)
(* of payload_bytes bytes; the model takes them from Payloads.             *)
(***************************************************************************)
Cap == 3
MaxPayload == 2

\* what the host program stores in a list, a stack or a queue
Payloads == {ToString(i) : i \in 1..MaxPayload}

\* what it offers to a set: one value more than the set has room for
SetPayloads == {ToString(i) : i \in 1..(Cap + 1)}

Kinds == {"list", "stack", "queue", "set"}

\* what a caller's buffer holds before stack_pop or queue_deq is called
Unwritten == "unwritten"

CollCall(op, index, payload, ret, buf) ==
    [op |-> op, index |-> index, payload |-> payload, ret |-> ret, buf |-> buf,
     before |-> coll, elems |-> shadow]

\* the sequence with x put after its first k elements
InsertAt(seq, k, x) ==
    SubSeq(seq, 1, k) \o <<x>> \o SubSeq(seq, k + 1, Len(seq))

\* the sequence without its k-th element
RemoveAt(seq, k) ==
    SubSeq(seq, 1, k - 1) \o SubSeq(seq, k + 1, Len(seq))

\* how many elements precede the one list_insert(index) adds
Position(seq, index) ==
    IF index < 0 \/ index > Len(seq) THEN Len(seq) ELSE index

\* the place of a node in the list, counted from 1
IndexOf(seq, x) == CHOOSE k \in 1..Len(seq) : seq[k] = x

\* the collection after list_init, stack_init, queue_init or set_init
InitColl ==
    /\ NoMachine
    /\ cond_param = [c \in Conds |-> TRUE]
    /\ NoTree
    /\ kind \in Kinds
    /\ coll = list_init(PayloadBytes, Cap)
    /\ shadow = <<>>
    /\ collcall = [op |-> "init", index |-> 0, payload |-> NULL, ret |-> NIL,
                   buf |-> Unwritten, before |-> coll, elems |-> <<>>]

\* an inserting call has answered r = [self, node]; `expected' is what the
\* collection holds if the call has stored the payload
Inserted(r, op, index, payload, expected) ==
    /\ coll' = r.self
    /\ shadow' = IF r.node = NIL THEN shadow ELSE expected
    /\ collcall' = CollCall(op, index, payload, r.node, Unwritten)
    /\ UNCHANGED <<kind, fvars, tvars>>

\* a removing call has answered p = [self, payload, ret]
Removed(p, op) ==
    /\ coll' = p.self
    /\ shadow' = IF p.ret < 0 THEN shadow ELSE Tail(shadow)
    /\ collcall' = CollCall(op, 0, NULL, p.ret, p.payload)
    /\ UNCHANGED <<kind, fvars, tvars>>

Cleared(self, op) ==
    /\ coll' = self
    /\ shadow' = <<>>
    /\ collcall' = CollCall(op, 0, NULL, NIL, Unwritten)
    /\ UNCHANGED <<kind, fvars, tvars>>

list_insert_call(index, payload) ==
    /\ kind = "list"
    /\ Inserted(list_insert(coll, index, payload), "list_insert", index, payload,
                InsertAt(shadow, Position(shadow, index), payload))

list_add_call(payload) ==
    /\ kind = "list"
    /\ Inserted(list_add(coll, payload), "list_add", -1, payload,
                Append(shadow, payload))

\* list_remove(list, iter) for an iterator of the list
list_remove_call(iter) ==
    /\ kind = "list"
    /\ iter \in Range(list_nodes(coll, list_iter(coll), Cap))
    /\ coll' = list_remove(coll, iter)
    /\ shadow' = RemoveAt(shadow, IndexOf(list_nodes(coll, list_iter(coll), Cap), iter))
    /\ collcall' = CollCall("list_remove", iter, NULL, NIL, Unwritten)
    /\ UNCHANGED <<kind, fvars, tvars>>

list_clear_call ==
    /\ kind = "list"
    /\ Cleared(list_clear(coll), "list_clear")

stack_push_call(payload) ==
    /\ kind = "stack"
    /\ Inserted(stack_push(coll, payload), "stack_push", 0, payload,
                <<payload>> \o shadow)

stack_pop_call ==
    /\ kind = "stack"
    /\ Removed(stack_pop(coll, Unwritten), "stack_pop")

stack_clear_call ==
    /\ kind = "stack"
    /\ Cleared(stack_clear(coll), "stack_clear")

queue_enq_call(payload) ==
    /\ kind = "queue"
    /\ Inserted(queue_enq(coll, payload), "queue_enq", -1, payload,
                Append(shadow, payload))

queue_deq_call ==
    /\ kind = "queue"
    /\ Removed(queue_deq(coll, Unwritten), "queue_deq")

queue_clear_call ==
    /\ kind = "queue"
    /\ Cleared(queue_clear(coll), "queue_clear")

set_add_call(payload) ==
    /\ kind = "set"
    /\ Inserted(set_add(coll, payload), "set_add", -1, payload,
                IF payload \in Range(shadow) THEN shadow ELSE Append(shadow, payload))

set_clear_call ==
    /\ kind = "set"
    /\ Cleared(set_clear(coll), "set_clear")

NextColl ==
    \/ \E index \in -1..(Cap + 1), payload \in Payloads : list_insert_call(index, payload)
    \/ \E payload \in Payloads : list_add_call(payload)
    \/ \E iter \in 1..Cap : list_remove_call(iter)
    \/ list_clear_call
    \/ \E payload \in Payloads : stack_push_call(payload)
    \/ stack_pop_call
    \/ stack_clear_call
    \/ \E payload \in Payloads : queue_enq_call(payload)
    \/ queue_deq_call
    \/ queue_clear_call
    \/ \E payload \in SetPayloads : set_add_call(payload)
    \/ set_clear_call

SpecColl == InitColl /\ [][NextColl]_vars

(***************************************************************************)
(* The tree on its own: one tree of TreeCap nodes, filled by tree_insert   *)
(* and tree_clear and walked by one iterator at a time.  The host program  *)
(* does not change the tree while it holds an iterator.                    *)
(***************************************************************************)
TreeCap == 4

TreeCall(op, parent_payload, payload, ret) ==
    [op |-> op, parent |-> parent_payload, payload |-> payload, ret |-> ret,
     before |-> tree]

InitTree ==
    /\ NoMachine
    /\ cond_param = [c \in Conds |-> TRUE]
    /\ NoCollection
    /\ tree = tree_init(PayloadBytes, TreeCap)
    /\ treeiter = TREE_ITER_NULL
    /\ yields = <<>>
    /\ born = <<>>
    /\ treecall = [op |-> "init", parent |-> NULL, payload |-> NULL, ret |-> NIL,
                   before |-> tree]

\* tree_insert has answered r = [self, node]
TreeInserted(r, parent_payload, payload) ==
    /\ tree' = r.self
    /\ born' = IF r.node = NIL THEN born ELSE Append(born, r.node)
    /\ treecall' = TreeCall("tree_insert", parent_payload, payload, r.node)
    /\ UNCHANGED <<treeiter, yields, fvars, cvars>>

\* tree_iter_get or tree_iter_next has answered r = [iter, ret]
TreeIterated(r, op) ==
    /\ treeiter' = r.iter
    /\ yields' = IF r.ret = NIL THEN yields
                 ELSE Append(yields, [node |-> r.iter.node,
                                      payload |-> tree.payload[r.iter.node],
                                      age |-> r.iter.age])
    /\ treecall' = TreeCall(op, NULL, NULL, r.ret)
    /\ UNCHANGED <<tree, born, fvars, cvars>>

tree_insert_call(parent_payload, payload) ==
    /\ ~treeiter.live
    /\ TreeInserted(tree_insert(tree, parent_payload, payload), parent_payload, payload)

tree_clear_call ==
    /\ ~treeiter.live
    /\ tree' = tree_clear(tree)
    /\ born' = <<>>
    /\ treecall' = TreeCall("tree_clear", NULL, NULL, NIL)
    /\ UNCHANGED <<treeiter, yields, fvars, cvars>>

tree_iter_get_call ==
    /\ ~treeiter.live
    /\ TreeIterated(tree_iter_get(tree), "tree_iter_get")

tree_iter_next_call ==
    /\ treeiter.live
    /\ TreeIterated(tree_iter_next(treeiter, tree), "tree_iter_next")

tree_iter_release_call ==
    /\ treeiter.live
    /\ treeiter' = tree_iter_release(treeiter)
    /\ yields' = <<>>
    /\ treecall' = TreeCall("tree_iter_release", NULL, NULL, NIL)
    /\ UNCHANGED <<tree, born, fvars, cvars>>

NextTree ==
    \/ \E parent_payload \in Payloads \cup {NULL}, payload \in Payloads :
          tree_insert_call(parent_payload, payload)
    \/ tree_clear_call
    \/ tree_iter_get_call
    \/ tree_iter_next_call
    \/ tree_iter_release_call

SpecTree == InitTree /\ [][NextTree]_vars

(***************************************************************************)
(* The life of a handle: the host program initialises a collection of one  *)
(* kind with sizes of its choice, releases what init answered, and may     *)
(* initialise again.  coll is the handle it holds: NULL_HANDLE, a collection  *)
(* or FREED; errno is "0" before every call.                                *)
(***************************************************************************)
HandleKinds == Kinds \cup {"tree"}

InitHandle ==
    /\ NoMachine
    /\ cond_param = [c \in Conds |-> TRUE]
    /\ NoTree
    /\ kind \in HandleKinds
    /\ coll = NULL_HANDLE
    /\ shadow = <<>>
    /\ collcall = [op |-> "none", payload_bytes |-> 0, capacity |-> 0,
                   obtained |-> TRUE, errno |-> "0", status |-> "ok",
                   before |-> coll]

\* an init call has answered r = [handle, errno]
Initialised(r, op, payload_bytes, capacity, obtained) ==
    /\ coll' = r.handle
    /\ collcall' = [op |-> op, payload_bytes |-> payload_bytes,
                    capacity |-> capacity, obtained |-> obtained,
                    errno |-> r.errno, status |-> "ok", before |-> coll]
    /\ UNCHANGED <<kind, shadow, fvars, tvars>>

\* a release call has answered r = [handle, status]
Released(r, op) ==
    /\ coll' = r.handle
    /\ collcall' = [op |-> op, payload_bytes |-> 0, capacity |-> 0,
                    obtained |-> TRUE, errno |-> "0", status |-> r.status,
                    before |-> coll]
    /\ UNCHANGED <<kind, shadow, fvars, tvars>>

list_init_call(payload_bytes, capacity, obtained) ==
    /\ kind = "list"
    /\ coll \in {NULL_HANDLE, FREED}
    /\ Initialised(list_init_outcome(payload_bytes, capacity, obtained, "0"),
                   "list_init", payload_bytes, capacity, obtained)

\* stack_init, queue_init and set_init are list_init behind a cast
stack_init_call(payload_bytes, capacity, obtained) ==
    /\ kind = "stack"
    /\ coll \in {NULL_HANDLE, FREED}
    /\ Initialised(list_init_outcome(payload_bytes, capacity, obtained, "0"),
                   "stack_init", payload_bytes, capacity, obtained)

queue_init_call(payload_bytes, capacity, obtained) ==
    /\ kind = "queue"
    /\ coll \in {NULL_HANDLE, FREED}
    /\ Initialised(list_init_outcome(payload_bytes, capacity, obtained, "0"),
                   "queue_init", payload_bytes, capacity, obtained)

set_init_call(payload_bytes, capacity, obtained) ==
    /\ kind = "set"
    /\ coll \in {NULL_HANDLE, FREED}
    /\ Initialised(list_init_outcome(payload_bytes, capacity, obtained, "0"),
                   "set_init", payload_bytes, capacity, obtained)

tree_init_call(payload_bytes, capacity, obtained) ==
    /\ kind = "tree"
    /\ coll \in {NULL_HANDLE, FREED}
    /\ Initialised(tree_init_outcome(payload_bytes, capacity, obtained, "0"),
                   "tree_init", payload_bytes, capacity, obtained)

\* a handle is released at most once: it "must be the return value of init"
list_release_call ==
    /\ kind = "list"
    /\ coll # FREED
    /\ Released(list_release(coll), "list_release")

stack_release_call ==
    /\ kind = "stack"
    /\ coll # FREED
    /\ Released(stack_release(coll), "stack_release")

queue_release_call ==
    /\ kind = "queue"
    /\ coll # FREED
    /\ Released(queue_release(coll), "queue_release")

set_release_call ==
    /\ kind = "set"
    /\ coll # FREED
    /\ Released(set_release(coll), "set_release")

tree_release_call ==
    /\ kind = "tree"
    /\ coll # FREED
    /\ Released(tree_release(coll), "tree_release")

NextHandle ==
    \/ \E payload_bytes \in 0..MaxBytes, capacity \in 0..Cap, obtained \in BOOLEAN :
          \/ list_init_call(payload_bytes, capacity, obtained)
          \/ stack_init_call(payload_bytes, capacity, obtained)
          \/ queue_init_call(payload_bytes, capacity, obtained)
          \/ set_init_call(payload_bytes, capacity, obtained)
          \/ tree_init_call(payload_bytes, capacity, obtained)
    \/ list_release_call
    \/ stack_release_call
    \/ queue_release_call
    \/ set_release_call
    \/ tree_release_call

SpecHandle == InitHandle /\ [][NextHandle]_vars


(***************************************************************************)
(* Vocabulary of the properties                                            *)
(***************************************************************************)
ProperAncestor(a, s) == a # s /\ InChain(a, s)

\* how many states the chains of S and T share: the depth of their lowest
\* common ancestor, 0 when they are in different trees
Shared(S, T) ==
    Cardinality({k \in 1..Depth(S) :
        k <= Depth(T) /\ \A j \in 1..k : Chain(S)[j] = Chain(T)[j]})

Reverse(seq) == [k \in 1..Len(seq) |-> seq[Len(seq) + 1 - k]]

\* the states on S's chain strictly below LCA(S, T), leaf first
ExitsOf(S, T) == Reverse(SubSeq(Chain(S), Shared(S, T) + 1, Depth(S)))

\* the states on T's chain strictly below LCA(S, T), root first
EntriesOf(S, T) == SubSeq(Chain(T), Shared(S, T) + 1, Depth(T))

IsExitHooked(s) == s \in HasExit

IsEntryHooked(s) == s \in HasEntry

MapSeq(seq, Op(_)) == [k \in 1..Len(seq) |-> Op(seq[k])]

Indices(hooks) == {i \in 1..Len(log) : log[i].hook \in hooks}

Least(S) == CHOOSE x \in S : \A y \in S : x <= y

\* the first log index after i whose hook is in `hooks', Len(log) + 1 if none
NextOf(i, hooks) ==
    LET later == {j \in Indices(hooks) : j > i}
    IN  IF later = {} THEN Len(log) + 1 ELSE Least(later)

\* the callbacks of the fsm_change_state call marked at log index i
Segment(i) ==
    SubSeq(log, i + 1,
           NextOf(i, {"change_state", "row", "null_dispatch", "cond", "action"}) - 1)

\* machine->current once the transition started at index i has settled
\* (history resolution included)
SettledCurrent(i) ==
    LET j == NextOf(i, {"row", "null_dispatch"})
    IN  IF j <= Len(log) THEN log[j].current ELSE current

View(e) == <<e.hook, e.state, e.current>>

\* rows of table t in front of its terminator
LiveRows(t) == {i \in 1..Len(Tables[t]) : \A j \in 1..i : Tables[t][j].from # NULL}

RowsFor(t, s, e) ==
    {i \in LiveRows(t) : Tables[t][i].from = s /\ Tables[t][i].event = e}

\* the ancestors-or-self of S that have a row for e, and the nearest of them
Handlers(t, S, e) == {a \in States : InChain(a, S) /\ RowsFor(t, a, e) # {}}

Nearest(t, S, e) ==
    CHOOSE a \in Handlers(t, S, e) : \A b \in Handlers(t, S, e) : Depth(b) <= Depth(a)

ExpectedRow(t, S, e) ==
    IF Handlers(t, S, e) = {} THEN 0 ELSE Least(RowsFor(t, Nearest(t, S, e), e))

GuardPasses(t, r) ==
    Tables[t][r].cond = NULL \/ cond_param[Tables[t][r].cond]

\* log index of the null dispatch that ends the call, 0 if the call did not get there
NullIdx == IF Indices({"null_dispatch"}) = {} THEN 0 ELSE Least(Indices({"null_dispatch"}))

(***************************************************************************)
(* C1  For a change from S to a different T that is not an ancestor of S,  *)
(* both chains at most NEST_MAX long, fsm_change_state calls the exit      *)
(* hooks of exactly the states of S's chain below LCA(S,T), leaf first     *)
(* and with machine->current still S, then sets current to T, then calls   *)
(* the entry hooks of exactly the states of T's chain below the LCA, root  *)
(* first; the LCA and its ancestors are neither exited nor entered.        *)
(***************************************************************************)
C1_Applies(i) ==
    /\ log[i].hook = "change_state"
    /\ log[i].current # log[i].state
    /\ ~ProperAncestor(log[i].state, log[i].current)
    /\ Depth(log[i].current) <= NEST_MAX
    /\ Depth(log[i].state) <= NEST_MAX

C1_Expected(S, T) ==
    LET ExitView(x)  == <<"exit", x, S>>
        EntryView(x) == <<"entry", x, T>>
    IN  MapSeq(SelectSeq(ExitsOf(S, T), IsExitHooked), ExitView)
        \o << <<"DEBUG", T, S>> >>
        \o MapSeq(SelectSeq(EntriesOf(S, T), IsEntryHooked), EntryView)

C1_ExitThenEntryAroundLCA ==
    \A i \in 1..Len(log) :
        C1_Applies(i) =>
            MapSeq(Segment(i), View) = C1_Expected(log[i].current, log[i].state)

C1_Witness ==
    \E i \in 1..Len(log) :
        /\ C1_Applies(i)
        /\ Depth(log[i].current) = NEST_MAX
        /\ Shared(log[i].current, log[i].state) >= 1
        /\ Depth(log[i].state) - Shared(log[i].current, log[i].state) >= 2
        /\ Len(Segment(i)) >= 5

(***************************************************************************)
(* C2  fsm_transition(machine, e) uses the first declared row for e of     *)
(* the nearest ancestor-or-self of machine->current that has any row for   *)
(* e, and no other row for e; when that row's guard lets it through, the   *)
(* machine arrives in the row's target (or in the child it remembers).     *)
(***************************************************************************)
C2_FirstRowOfNearestHandler ==
    (call.op = "fsm_transition" /\ call.machine = "live") =>
        LET r == ExpectedRow(corresps, call.current, call.event)
            eventRows == {i \in Indices({"row"}) : NullIdx = 0 \/ i < NullIdx}
        IN  IF r = 0
               THEN eventRows = {}
               ELSE /\ eventRows = {1}
                    /\ log[1].row = r
                    /\ log[1].state = Nearest(corresps, call.current, call.event)
                    /\ (GuardPasses(corresps, r) /\ call.status = "ok")
                          => InChain(Tables[corresps][r].to, log[NullIdx].current)

C2_Witness ==
    /\ call.op = "fsm_transition"
    /\ call.status = "ok"
    /\ Cardinality(Handlers(corresps, call.current, call.event)) >= 2
    /\ Depth(call.current) - Depth(Nearest(corresps, call.current, call.event)) >= 2
    /\ Cardinality(RowsFor(corresps, Nearest(corresps, call.current, call.event),
                           call.event)) >= 2
    /\ GuardPasses(corresps, ExpectedRow(corresps, call.current, call.event))

(***************************************************************************)
(* C3  (as claimed) When fsm_transition or fsm_init returns, no row        *)
(* (machine->current, null event) with an absent or true guard is left:    *)
(* null-event rows are followed until none matches.                        *)
(***************************************************************************)
C3_NullChainExhausted ==
    (call.op \in {"fsm_transition", "fsm_init"} /\ machine = "live") =>
        \A r \in RowsFor(corresps, current, EVENT_NULL_TRANSITION) :
            ~GuardPasses(corresps, r)

\* the rows matched by the null dispatch that ends the call
NullRows == {i \in Indices({"row"}) : NullIdx # 0 /\ i > NullIdx}

(***************************************************************************)
(* C3  (amended) fsm_transition and fsm_init dispatch the null event       *)
(* exactly once, after the supplied event, against the state that is then  *)
(* machine->current: at most one null-event row is used per call (the      *)
(* first declared one of that state), so a chain of null-event rows        *)
(* advances by one row per call.                                           *)
(***************************************************************************)
C3_OneNullDispatchPerCall ==
    (/\ \/ call.op = "fsm_transition" /\ call.machine = "live"
        \/ call.op = "fsm_init" /\ call.ret # NULL
     /\ call.status = "ok") =>
        /\ Cardinality(Indices({"null_dispatch"})) = 1
        /\ LET n == NullIdx
               S == log[n].current
               rows == RowsFor(corresps, S, EVENT_NULL_TRANSITION)
           IN  IF rows = {}
                  THEN Len(log) = n /\ current = S
                  ELSE /\ NullRows = {n + 1}
                       /\ log[n + 1].row = Least(rows)
                       /\ log[n + 1].state = S
                       /\ IF GuardPasses(corresps, Least(rows))
                             THEN InChain(Tables[corresps][Least(rows)].to, current)
                             ELSE current = S

C3_Witness ==
    /\ call.op = "fsm_transition"
    /\ call.status = "ok"
    /\ NullRows # {}
    /\ log[NullIdx].current # call.current
    /\ current # log[NullIdx].current
    /\ \E r \in RowsFor(corresps, current, EVENT_NULL_TRANSITION) : GuardPasses(corresps, r)

(***************************************************************************)
(* C4  (as claimed) When the first matching row's guard returns false,     *)
(* no action and no hook runs and, after fsm_transition returns,           *)
(* machine->current and every history slot are as before the call.         *)
(***************************************************************************)
C4_Applies ==
    /\ call.op = "fsm_transition"
    /\ call.machine = "live"
    /\ ExpectedRow(corresps, call.current, call.event) # 0
    /\ ~GuardPasses(corresps, ExpectedRow(corresps, call.current, call.event))

C4_GuardFalseLeavesMachineUntouched ==
    C4_Applies =>
        /\ Indices({"action", "exit", "entry"}) = {}
        /\ current = call.current
        /\ history = call.history

(***************************************************************************)
(* C4  (amended) When the first matching row's guard returns false the     *)
(* event is handled and does nothing: no further row is tried, no action   *)
(* and no hook runs, and machine->current and every history slot are       *)
(* unchanged when the null dispatch that ends fsm_transition starts; they  *)
(* are unchanged on return unless machine->current has a null-event row.   *)
(***************************************************************************)
C4_GuardFalseHandlesEventOnly ==
    C4_Applies =>
        /\ Len(log) >= 3
        /\ log[1].hook = "row"
        /\ log[1].row = ExpectedRow(corresps, call.current, call.event)
        /\ log[2].hook = "cond"
        /\ log[2].row = log[1].row
        /\ log[3].hook = "null_dispatch"
        /\ log[3].current = call.current
        /\ log[3].history = call.history
        /\ RowsFor(corresps, call.current, EVENT_NULL_TRANSITION) = {} =>
              (Len(log) = 3 /\ current = call.current /\ history = call.history)

C4_Witness ==
    /\ C4_Applies
    /\ Cardinality(Handlers(corresps, call.current, call.event)) >= 2
    /\ Cardinality(RowsFor(corresps, Nearest(corresps, call.current, call.event),
                           call.event)) >= 2
    /\ Nearest(corresps, call.current, call.event) # call.current

(***************************************************************************)
(* C5  When a row matches and its guard is absent or true: the guard is    *)
(* evaluated first, then the row's action runs exactly once, and only      *)
(* then fsm_change_state starts, so the action sees machine->current and   *)
(* the history slots as they were, before any exit or entry hook.          *)
(***************************************************************************)
C5_GuardThenActionThenChange ==
    \A i \in Indices({"row"}) :
        LET r == Tables[corresps][log[i].row]
            c == IF r.cond # NULL THEN 1 ELSE 0
            a == IF r.action # NULL THEN 1 ELSE 0
            stop == NextOf(i, {"row", "null_dispatch"})
            between(hooks) == {j \in Indices(hooks) : i < j /\ j < stop}
        IN  /\ between({"cond"}) = (IF c = 1 THEN {i + 1} ELSE {})
            /\ c = 1 => log[i + 1].row = log[i].row
            /\ IF GuardPasses(corresps, log[i].row)
                  THEN /\ between({"action"}) = (IF a = 1 THEN {i + c + 1} ELSE {})
                       /\ a = 1 => /\ log[i + c + 1].row = log[i].row
                                   /\ log[i + c + 1].current = log[i].current
                                   /\ log[i + c + 1].history = log[i].history
                       /\ i + c + a + 1 <= Len(log)
                       /\ log[i + c + a + 1].hook = "change_state"
                       /\ log[i + c + a + 1].state = r.to
                       /\ log[i + c + a + 1].current = log[i].current
                       /\ between({"exit", "entry", "change_state"})
                             \subseteq {j \in 1..Len(log) : j >= i + c + a + 1}
                  ELSE between({"action", "exit", "entry", "change_state"}) = {}

C5_Witness ==
    \E i \in Indices({"row"}) :
        /\ Tables[corresps][log[i].row].cond # NULL
        /\ Tables[corresps][log[i].row].action # NULL
        /\ GuardPasses(corresps, log[i].row)
        /\ \E j, k \in 1..Len(Segment(i + 3)) :
              Segment(i + 3)[j].hook = "exit" /\ Segment(i + 3)[k].hook = "entry"

FullView(e) == <<e.hook, e.state, e.cmpl>>

(***************************************************************************)
(* C6  (as claimed) A matched row whose from equals its to runs            *)
(* exit(completed=true) then entry(completed=true) on that one state and   *)
(* no other hook, also when the row was reached from a nested current      *)
(* state, and leaves machine->current unchanged.                           *)
(***************************************************************************)
C6_SelfTransitionTouchesOneState ==
    \A i \in Indices({"row"}) :
        LET r == Tables[corresps][log[i].row]
            m == NextOf(i, {"change_state"})
        IN  (r.from = r.to /\ GuardPasses(corresps, log[i].row)) =>
                /\ m <= Len(log)
                /\ MapSeq(Segment(m), FullView) =
                       (IF r.to \in HasExit THEN << <<"exit", r.to, TRUE>> >> ELSE <<>>)
                       \o (IF r.to \in HasEntry THEN << <<"entry", r.to, TRUE>> >> ELSE <<>>)
                /\ NextOf(m, {"change_state"}) >= NextOf(i, {"row", "null_dispatch"})
                /\ SettledCurrent(i) = log[i].current
                /\ call.status = "ok"

(***************************************************************************)
(* C7  If composite P was last left while its direct child B was active,   *)
(* the next state change whose target is P enters P, then B, and settles   *)
(* inside B, not in P or another child; recursively, when B in turn was    *)
(* left with C active the machine settles in C.                            *)
(***************************************************************************)
LeftAt(i) == LeftAfter(call.left_with, log, i - 1)

RECURSIVE Remembered(_, _)
Remembered(s, lw) == IF lw[s] = NULL THEN s ELSE Remembered(lw[s], lw)

C7_Applies(i) ==
    /\ log[i].hook = "change_state"
    /\ log[i].current # log[i].state
    /\ ~ProperAncestor(log[i].state, log[i].current)
    /\ LeftAt(i)[log[i].state] # NULL

C7_HistoryResumesLastActiveChild ==
    \A i \in 1..Len(log) :
        C7_Applies(i) =>
            LET P == log[i].state
                B == LeftAt(i)[P]
                j == NextOf(i, {"change_state", "row", "null_dispatch", "cond", "action"})
                entered == SelectSeq(MapSeq(SubSeq(log, i + 1, NextOf(i, {"row", "null_dispatch"}) - 1),
                                            View),
                                     LAMBDA v : v[1] = "entry" /\ v[2] \in {P, B})
            IN  /\ j <= Len(log)
                /\ log[j].hook = "change_state"
                /\ log[j].state = B
                /\ log[j].current = P
                /\ entered = (IF P \in HasEntry THEN << <<"entry", P, P>> >> ELSE <<>>)
                             \o (IF B \in HasEntry THEN << <<"entry", B, B>> >> ELSE <<>>)
                /\ SettledCurrent(i) # P
                /\ InChain(B, SettledCurrent(i))
                /\ SettledCurrent(i) = Remembered(B, LeftAt(i))

C7_Witness ==
    \E i \in 1..Len(log) :
        /\ C7_Applies(i)
        /\ log[i].state \in {"A", "B"}
        /\ LeftAt(i)[LeftAt(i)[log[i].state]] # NULL
        /\ SettledCurrent(i) = Remembered(log[i].state, LeftAt(i))
        /\ Depth(SettledCurrent(i)) >= Depth(log[i].state) + 2

(***************************************************************************)
(* C8  In the exit phase of a state change the completed flag is true      *)
(* only for the last state exited, the direct child of the LCA (the root   *)
(* of current's tree when the two states share no ancestor), and false     *)
(* for every state exited before it.                                       *)
(***************************************************************************)
C8_OnlyLastExitCompleted ==
    \A i \in Indices({"change_state"}) :
        LET S == log[i].current
            T == log[i].state
            last == IF S = T THEN S ELSE Chain(S)[Shared(S, T) + 1]
            seg == Segment(i)
        IN  \A k \in 1..Len(seg) :
                seg[k].hook = "exit" =>
                    /\ seg[k].cmpl = (seg[k].state = last)
                    /\ seg[k].cmpl => \A n \in (k + 1)..Len(seg) : seg[n].hook # "exit"

C8_Witness ==
    \E i \in Indices({"change_state"}) :
        /\ Shared(log[i].current, log[i].state) >= 1
        /\ Cardinality({k \in 1..Len(Segment(i)) :
                          Segment(i)[k].hook = "exit" /\ ~Segment(i)[k].cmpl}) >= 2
        /\ \E k \in 1..Len(Segment(i)) :
              /\ Segment(i)[k].hook = "exit"
              /\ Segment(i)[k].cmpl
              /\ parent[Segment(i)[k].state] # NULL

(***************************************************************************)
(* C9  (as claimed) In the entry phase of a change to T the completed      *)
(* flag is true only for T and false for every composite entered on the    *)
(* way; across one committed transition, history resolution included,      *)
(* exactly one entry hook receives completed=true.                         *)
(***************************************************************************)
CompletedEntries(i, stop) ==
    {j \in Indices({"entry"}) : i < j /\ j < stop /\ log[j].cmpl}

C9_OneCompletedEntryPerTransition ==
    \A i \in Indices({"row"}) :
        LET T == Tables[corresps][log[i].row].to
        IN  (/\ GuardPasses(corresps, log[i].row)
             /\ T \in HasEntry
             /\ ~ProperAncestor(T, log[i].current)) =>
                 /\ Cardinality(CompletedEntries(i, NextOf(i, {"row", "null_dispatch"}))) = 1
                 /\ \A j \in CompletedEntries(i, NextOf(i, {"row", "null_dispatch"})) :
                        log[j].state = T

(***************************************************************************)
(* C9  (amended) In the entry phase of each fsm_change_state call the      *)
(* completed flag is true for the target of that call and false for every  *)
(* composite entered on the way down to it; history resolution is a        *)
(* further fsm_change_state call per remembered child, so one committed    *)
(* transition passes completed=true once for the row's target and once     *)
(* more for every remembered child it resumes.                             *)
(***************************************************************************)
C9_CompletedEntryPerChangeState ==
    /\ \A i \in Indices({"change_state"}) :
          LET S == log[i].current
              T == log[i].state
              seg == Segment(i)
          IN  /\ \A k \in 1..Len(seg) :
                    seg[k].hook = "entry" => seg[k].cmpl = (seg[k].state = T)
              /\ (T \in HasEntry /\ ~ProperAncestor(T, S)) =>
                    /\ Len(seg) >= 1
                    /\ FullView(seg[Len(seg)]) = <<"entry", T, TRUE>>
    /\ \A i \in Indices({"row"}) :
          LET stop == NextOf(i, {"row", "null_dispatch"})
              T == Tables[corresps][log[i].row].to
          IN  (GuardPasses(corresps, log[i].row) /\ ~ProperAncestor(T, log[i].current)) =>
                  Cardinality(CompletedEntries(i, stop)) =
                      Cardinality({j \in Indices({"change_state"}) :
                                      i < j /\ j < stop /\ log[j].state \in HasEntry})

C9_Witness ==
    \E i \in Indices({"row"}) :
        LET stop == NextOf(i, {"row", "null_dispatch"})
        IN  /\ Cardinality(CompletedEntries(i, stop)) >= 2
            /\ Cardinality({j \in Indices({"entry"}) : i < j /\ j < stop /\ ~log[j].cmpl}) >= 2

(***************************************************************************)
(* C10  (as claimed) An event for which neither machine->current nor any   *)
(* ancestor has a row is ignored: fsm_transition returns with current and  *)
(* every history slot unchanged and no guard, action or hook executed.     *)
(***************************************************************************)
C10_Applies ==
    /\ call.op = "fsm_transition"
    /\ call.machine = "live"
    /\ ExpectedRow(corresps, call.current, call.event) = 0

C10_UnhandledEventChangesNothing ==
    C10_Applies =>
        /\ Indices({"cond", "action", "exit", "entry"}) = {}
        /\ current = call.current
        /\ history = call.history

(***************************************************************************)
(* C10  (amended) An event for which neither machine->current nor any      *)
(* ancestor has a row is itself ignored: no row is used for it and         *)
(* nothing has run or changed when the null dispatch that ends             *)
(* fsm_transition starts; current and the history slots are unchanged on   *)
(* return unless machine->current has a null-event row.                    *)
(***************************************************************************)
C10_UnhandledEventIsIgnored ==
    C10_Applies =>
        /\ Len(log) >= 1
        /\ log[1].hook = "null_dispatch"
        /\ log[1].current = call.current
        /\ log[1].history = call.history
        /\ call.status = "ok"
        /\ RowsFor(corresps, call.current, EVENT_NULL_TRANSITION) = {} =>
              (Len(log) = 1 /\ current = call.current /\ history = call.history)

C10_Witness ==
    /\ C10_Applies
    /\ Depth(call.current) >= 3
    /\ call.event # EVENT_NULL_TRANSITION
    /\ \E s \in States : InChain(s, call.current) /\ \E e \in Events : RowsFor(corresps, s, e) # {}
    /\ Len(log) = 1

(***************************************************************************)
(* C11  fsm_init on a non-null table returns a machine that has already    *)
(* taken the initial transition: when the row used for (start, null        *)
(* event) has an absent or true guard, current is that row's target or     *)
(* the descendant its history resumes, and the entry hooks of current's    *)
(* whole chain have run, root first; otherwise current is start and no     *)
(* hook has run.                                                           *)
(***************************************************************************)
HookedEntries(s) == SelectSeq(Chain(s), IsEntryHooked)

EntryStates == MapSeq(SelectSeq(log, LAMBDA e : e.hook = "entry"), LAMBDA e : e.state)

C11_InitTakesInitialTransition ==
    (call.op = "fsm_init" /\ call.ret # NULL) =>
        LET rows == RowsFor(corresps, state_start, EVENT_NULL_TRANSITION)
        IN  /\ machine = "live"
            /\ call.status = "ok"
            /\ Len(log) >= 1
            /\ log[1].hook = "null_dispatch"
            /\ log[1].current = state_start
            /\ IF rows # {} /\ GuardPasses(corresps, Least(rows))
                  THEN /\ InChain(Tables[corresps][Least(rows)].to, current)
                       /\ current = Remembered(Tables[corresps][Least(rows)].to,
                                               call.left_with)
                       /\ EntryStates = HookedEntries(current)
                       /\ Indices({"exit"}) = {}
                  ELSE /\ current = state_start
                       /\ Indices({"entry", "exit", "action", "change_state"}) = {}

C11_Witness ==
    /\ call.op = "fsm_init"
    /\ call.ret # NULL
    /\ RowsFor(corresps, state_start, EVENT_NULL_TRANSITION) # {}
    /\ Tables[corresps][Least(RowsFor(corresps, state_start, EVENT_NULL_TRANSITION))].cond # NULL
    /\ GuardPasses(corresps, Least(RowsFor(corresps, state_start, EVENT_NULL_TRANSITION)))
    /\ current # Tables[corresps][Least(RowsFor(corresps, state_start, EVENT_NULL_TRANSITION))].to
    /\ Len(EntryStates) >= 3

(***************************************************************************)
(* C12  fsm_term on a live machine runs the exit hooks of current and of   *)
(* every ancestor up to the root, leaf first, with completed=true only on  *)
(* the root, runs no entry hook, ends with current = end and returns 0.    *)
(***************************************************************************)
ExitCalls ==
    MapSeq(SelectSeq(log, LAMBDA e : e.hook = "exit"), LAMBDA e : <<e.state, e.cmpl>>)

C12_TermExitsToRootAndEnds ==
    (call.op = "fsm_term" /\ call.machine = "live") =>
        /\ call.ret = "0"
        /\ call.status = "ok"
        /\ ExitCalls = MapSeq(SelectSeq(Reverse(Chain(call.current)), IsExitHooked),
                              LAMBDA x : <<x, parent[x] = NULL>>)
        /\ Indices({"entry"}) = {}
        /\ current = state_end

\* the states a table names in front of its terminator, with their ancestors
TableClosure(t) ==
    {s \in States : \E i \in LiveRows(t) :
        InChain(s, Tables[t][i].from) \/ InChain(s, Tables[t][i].to)}

Targets(t) == {Tables[t][i].to : i \in LiveRows(t)}

\* every state of s's chain below its ancestor a is the one stored in the
\* history slot of its parent
StoredBelow(a, s) ==
    \A k \in (Depth(a) + 1)..Depth(s) :
        history[get_state_variable(Chain(s)[k - 1])] = Chain(s)[k]

(***************************************************************************)
(* C13  (as claimed) Between fsm_init and fsm_term machine->current is     *)
(* non-null and is never a state absent from the machine's table and its   *)
(* ancestor closure.                                                       *)
(***************************************************************************)
C13_CurrentWithinTableClosure ==
    machine = "live" =>
        /\ current # NULL
        /\ current \in {state_start} \cup TableClosure(corresps)

(***************************************************************************)
(* C13  (amended) Between fsm_init and fsm_term machine->current is        *)
(* non-null and is the start state, the target of a row of the machine's   *)
(* table, or a descendant of such a target entered by history resolution,  *)
(* every state on the way down being the one stored in its parent's        *)
(* history slot.  History slots are static and outlive fsm_term, so such   *)
(* a descendant may be a state the table and its ancestor closure never    *)
(* name.                                                                   *)
(***************************************************************************)
C13_CurrentIsTargetOrResumed ==
    machine = "live" =>
        /\ current # NULL
        /\ \/ current = state_start
           \/ current \in Targets(corresps)
           \/ \E T \in Targets(corresps) :
                 ProperAncestor(T, current) /\ StoredBelow(T, current)

C13_Witness ==
    /\ machine = "live"
    /\ call.op = "fsm_init"
    /\ current \notin {state_start} \cup TableClosure(corresps)
    /\ \E T \in Targets(corresps) :
          /\ ProperAncestor(T, current)
          /\ StoredBelow(T, current)
          /\ Depth(current) >= Depth(T) + 2

(***************************************************************************)
(* C14  The history slot read for a state S, states defined without a      *)
(* variable object included, is always null or a direct child of S: it is  *)
(* written only when one of S's own children is exited.                    *)
(***************************************************************************)
C14_HistoryIsOwnChild ==
    \A S \in States :
        \/ history[get_state_variable(S)] = NULL
        \/ parent[history[get_state_variable(S)]] = S

(***************************************************************************)
(* C15  fsm_update on a live machine calls the exec hook of                *)
(* machine->current, if it has one, and nothing else: no ancestor's exec   *)
(* hook, no entry or exit hook, no guard or action, no event dispatch;     *)
(* current and every history slot are unchanged.                           *)
(***************************************************************************)
C15_UpdateRunsOnlyCurrentExec ==
    (call.op = "fsm_update" /\ call.machine = "live") =>
        /\ MapSeq(log, View) =
              (IF call.current \in HasExec
                  THEN << <<"exec", call.current, call.current>> >> ELSE <<>>)
        /\ current = call.current
        /\ history = call.history
        /\ machine = "live"

C15_Witness ==
    /\ call.op = "fsm_update"
    /\ call.machine = "live"
    /\ Len(log) = 1
    /\ \E a \in HasExec : ProperAncestor(a, current)
    /\ \E v \in Variables : history[v] # NULL

(***************************************************************************)
(* C16  fsm_init(NULL) returns a null handle without running a hook or     *)
(* changing anything; fsm_term, fsm_transition and fsm_update on a null    *)
(* handle change nothing and run nothing, fsm_term returning -1; every     *)
(* non-null table, the one holding only the terminator included, yields a  *)
(* machine.                                                                *)
(***************************************************************************)
C16_Untouched ==
    /\ log = <<>>
    /\ machine = "none"
    /\ current = call.current
    /\ history = call.history
    /\ call.status = "ok"

ArenaIntact(self, c) ==
    /\ self.capacity = c
    /\ DOMAIN self.prev = 1..c
    /\ DOMAIN self.next = 1..c
    /\ DOMAIN self.payload = 1..c
    /\ Len(list_nodes(self, self.root, c + 1)) + Len(list_nodes(self, self.released, c + 1)) = c
    /\ Range(list_nodes(self, self.root, c + 1))
          \cup Range(list_nodes(self, self.released, c + 1)) = 1..c
    /\ self.count = Len(list_nodes(self, self.root, c + 1))

(***************************************************************************)
(* C17  Between fsm_init and fsm_term nothing is allocated or released:    *)
(* whatever fsm_transition and fsm_update calls have run, each scratch     *)
(* stack still consists of exactly the NEST_MAX slots of the arena that    *)
(* fsm_init created, every slot either in use or on the released list.     *)
(***************************************************************************)
C17_ScratchStacksStayInTheirArenas ==
    machine = "live" =>
        /\ ArenaIntact(src_ancestors, NEST_MAX)
        /\ ArenaIntact(dest_ancestors, NEST_MAX)

C17_Witness ==
    /\ machine = "live"
    /\ call.op = "fsm_transition"
    /\ Depth(call.current) = NEST_MAX
    /\ Depth(current) >= 2
    /\ Shared(call.current, current) = 0
    /\ src_ancestors.count = NEST_MAX - 1
    /\ dest_ancestors.count = 0

(***************************************************************************)
(* Vocabulary of the collection properties                                 *)
(***************************************************************************)
InsertOps == {"list_insert", "list_add", "stack_push", "queue_enq", "set_add"}

RemoveOps == {"stack_pop", "queue_deq"}

\* the last call asked to store a new element at a place the collection has:
\* an index not beyond the length, and for a set a payload it does not hold
AsksForNewElement ==
    /\ collcall.op \in InsertOps
    /\ collcall.op = "list_insert" => collcall.index <= Len(collcall.elems)
    /\ collcall.op = "set_add" => collcall.payload \notin Range(collcall.elems)

\* what the collection holds, read from its links
Stored == list_elems(coll, list_iter(coll))

(***************************************************************************)
(* C18  Capacity law for list, stack, queue and set of capacity Cap: an    *)
(* insert of a new element fails (returns null) exactly when Cap elements  *)
(* are stored, and then count and the stored elements stay as they were;   *)
(* while fewer than Cap are stored it succeeds and count grows by one, so  *)
(* that after a removal from a full collection exactly one more insert     *)
(* succeeds.                                                               *)
(***************************************************************************)
C18_InsertFailsExactlyWhenFull ==
    AsksForNewElement =>
        /\ (collcall.ret = NIL) <=> (Len(collcall.elems) = Cap)
        /\ collcall.ret = NIL =>
              /\ list_count(coll) = Len(collcall.elems)
              /\ Stored = collcall.elems
        /\ collcall.ret # NIL => list_count(coll) = Len(collcall.elems) + 1

(***************************************************************************)
(* C19  Whatever successful pushes, enqueues and removals came before, a   *)
(* successful stack_pop hands out the most recently pushed element that    *)
(* was not yet popped, a successful queue_deq the earliest enqueued        *)
(* element that was not yet dequeued, and each returns the number of       *)
(* elements that remain after the removal.  (shadow is kept as a stack     *)
(* for stack_push and as a queue for queue_enq: its head is that element.) *)
(***************************************************************************)
C19_PopIsLifoDeqIsFifo ==
    (collcall.op \in RemoveOps /\ collcall.ret >= 0) =>
        /\ collcall.elems # <<>>
        /\ collcall.buf = Head(collcall.elems)
        /\ collcall.ret = Len(collcall.elems) - 1
        /\ list_count(coll) = collcall.ret
        /\ Stored = Tail(collcall.elems)

\* a dequeue from a queue of two different elements whose head is no longer
\* in the slot the first enqueue took: removals and inserts were interleaved
C19_Witness ==
    /\ collcall.op = "queue_deq"
    /\ collcall.ret = 1
    /\ Len(collcall.elems) = 2
    /\ collcall.elems[1] # collcall.elems[2]
    /\ collcall.buf = collcall.elems[1]
    /\ list_iter(collcall.before) # Cap

(***************************************************************************)
(* C20  stack_pop and queue_deq on an empty collection return -1, do not   *)
(* write the caller's buffer and leave the collection exactly as it was,   *)
(* with count 0: every later call finds it as if the failed call had not   *)
(* been made, so a later push or enqueue followed by a pop or dequeue      *)
(* returns that element.                                                   *)
(***************************************************************************)
C20_RemoveFromEmptyFailsHarmlessly ==
    /\ (collcall.op \in RemoveOps /\ collcall.elems = <<>>) =>
          /\ collcall.ret = -1
          /\ collcall.buf = Unwritten
          /\ list_count(coll) = 0
          /\ coll = collcall.before
          /\ ArenaIntact(coll, Cap)
    /\ (collcall.op \in RemoveOps /\ Len(collcall.elems) = 1) =>
          /\ collcall.ret = 0
          /\ collcall.buf = collcall.elems[1]

\* a dequeue from a queue that is empty again after it has been in use (its
\* released slots are no longer in the order queue_init left them in)
C20_Witness ==
    /\ collcall.op = "queue_deq"
    /\ collcall.elems = <<>>
    /\ collcall.ret = -1
    /\ collcall.buf = Unwritten
    /\ list_count(coll) = 0
    /\ coll # queue_init(PayloadBytes, Cap)

(***************************************************************************)
(* C21  After any sequence of list, stack, queue and set calls: count is   *)
(* at most the capacity and equals the number of nodes reached from the    *)
(* head along the next links; head and tail are null exactly when count    *)
(* is 0; the head has no predecessor and the tail no successor (and the    *)
(* walk from the head ends in the tail).                                   *)
(***************************************************************************)
Live == list_nodes(coll, list_iter(coll), Cap + 1)

C21_CountAndEndsAgree ==
    /\ list_count(coll) <= Cap
    /\ list_count(coll) = Len(Live)
    /\ (coll.root = NIL) <=> (list_count(coll) = 0)
    /\ (coll.last = NIL) <=> (list_count(coll) = 0)
    /\ coll.root # NIL => coll.prev[coll.root] = NIL
    /\ coll.last # NIL => coll.next[coll.last] = NIL
    /\ Live # <<>> => Live[Len(Live)] = coll.last

\* a list emptied by list_remove, with its slots no longer linked as
\* list_init left them
C21_Witness ==
    /\ kind = "list"
    /\ collcall.op = "list_remove"
    /\ list_count(coll) = 0
    /\ coll.root = NIL
    /\ coll.last = NIL
    /\ coll # list_init(PayloadBytes, Cap)

(***************************************************************************)
(* C22  After any sequence of calls, successful or failing, every slot of  *)
(* the arena is exactly one of live (linked from the head) or free (on     *)
(* the released list): live plus free slots are Cap, and no slot is both.  *)
(***************************************************************************)
Free == list_nodes(coll, coll.released, Cap + 1)

C22_EverySlotLiveOrFree ==
    /\ Len(Live) + Len(Free) = Cap
    /\ Range(Live) \cap Range(Free) = {}
    /\ Range(Live) \cup Range(Free) = 1..Cap

(***************************************************************************)
(* C23  list_insert(list, index, payload) on a list of length L that has   *)
(* a free slot: index 0 puts a copy of payload at the head, a negative     *)
(* index at the tail, 0 < index <= L at position index (before the         *)
(* element that was there, at the tail when index = L); the elements that  *)
(* were stored keep their nodes and their order; index > L fails (null).   *)
(***************************************************************************)
LiveBefore == list_nodes(collcall.before, list_iter(collcall.before), Cap + 1)

C23_Expected ==
    IF collcall.index = 0
       THEN <<collcall.payload>> \o collcall.elems
    ELSE IF collcall.index < 0
       THEN collcall.elems \o <<collcall.payload>>
    ELSE SubSeq(collcall.elems, 1, collcall.index) \o <<collcall.payload>>
            \o SubSeq(collcall.elems, collcall.index + 1, Len(collcall.elems))

C23_InsertPlacesByIndex ==
    (collcall.op = "list_insert" /\ collcall.before.released # NIL) =>
        IF collcall.index > Len(collcall.elems)
           THEN collcall.ret = NIL
           ELSE /\ collcall.ret # NIL
                /\ Stored = C23_Expected
                /\ Len(Live) = Len(LiveBefore) + 1
                /\ Live[Position(collcall.elems, collcall.index) + 1] = collcall.ret
                /\ RemoveAt(Live, Position(collcall.elems, collcall.index) + 1) = LiveBefore
                /\ \A k \in 1..Len(LiveBefore) :
                      coll.payload[LiveBefore[k]] = collcall.elems[k]

\* an insert between two different elements
C23_Witness ==
    /\ collcall.op = "list_insert"
    /\ collcall.index = 1
    /\ Len(collcall.elems) = 2
    /\ collcall.elems[1] # collcall.elems[2]
    /\ collcall.ret # NIL
    /\ Stored = <<collcall.elems[1], collcall.payload, collcall.elems[2]>>

(***************************************************************************)
(* C24  A set built through set_add never holds two equal payloads.        *)
(* set_add of a payload that is present returns the slot that holds it     *)
(* and changes nothing, also when the set is full; set_add of a new        *)
(* payload appends it at the tail, or fails (null) when the set is full.   *)
(***************************************************************************)
NoDuplicates(seq) == \A i, j \in 1..Len(seq) : seq[i] = seq[j] => i = j

C24_SetHoldsEachPayloadOnce ==
    kind = "set" =>
        /\ NoDuplicates(Stored)
        /\ collcall.op = "set_add" =>
              IF collcall.payload \in Range(collcall.elems)
                 THEN /\ collcall.ret \in Range(LiveBefore)
                      /\ collcall.before.payload[collcall.ret] = collcall.payload
                      /\ coll = collcall.before
                 ELSE IF Len(collcall.elems) = Cap
                    THEN /\ collcall.ret = NIL
                         /\ Stored = collcall.elems
                         /\ list_count(coll) = Cap
                    ELSE /\ collcall.ret # NIL
                         /\ Stored = Append(collcall.elems, collcall.payload)
                         /\ list_count(coll) = Len(collcall.elems) + 1

\* set_add of a payload that the full set already holds, not at its head
C24_Witness ==
    /\ kind = "set"
    /\ collcall.op = "set_add"
    /\ Len(collcall.elems) = Cap
    /\ collcall.payload = collcall.elems[Cap]
    /\ collcall.ret # NIL
    /\ list_count(coll) = Cap

(***************************************************************************)
(* Vocabulary of the tree properties.  The walks carry a bound on their    *)
(* recursion depth so that they end on any link structure.                 *)
(***************************************************************************)
TreeNodes == 1..(TreeCap + 1)

\* a node, then its first child's walk, then its next sibling's walk
RECURSIVE PreOrder(_, _, _)
PreOrder(t, n, fuel) ==
    IF n = NIL \/ fuel = 0 THEN <<>>
    ELSE <<n>> \o PreOrder(t, t.first_child[n], fuel - 1)
               \o PreOrder(t, t.next_sibling[n], fuel - 1)

\* the order tree_insert looks for the parent in: a node, then its next
\* sibling's walk, then its first child's walk
RECURSIVE SearchOrder(_, _, _)
SearchOrder(t, n, fuel) ==
    IF n = NIL \/ fuel = 0 THEN <<>>
    ELSE <<n>> \o SearchOrder(t, t.next_sibling[n], fuel - 1)
               \o SearchOrder(t, t.first_child[n], fuel - 1)

RECURSIVE Siblings(_, _, _)
Siblings(t, n, fuel) ==
    IF n = NIL \/ fuel = 0 THEN <<>>
    ELSE <<n>> \o Siblings(t, t.next_sibling[n], fuel - 1)

\* the children of a node, first to last
Children(t, n) == Siblings(t, t.first_child[n], TreeCap + 1)

\* the nodes below the root, as an iteration has to yield them
Elements(t) == PreOrder(t, t.first_child[t.root], TreeCap + 1)

ParentsOf(t, x) == {n \in TreeNodes : x \in Range(Children(t, n))}

\* the number of links from the root down to x (the root is at depth 0)
RECURSIVE DepthIn(_, _, _)
DepthIn(t, x, fuel) ==
    IF x = t.root \/ fuel = 0 \/ ParentsOf(t, x) = {} THEN 0
    ELSE 1 + DepthIn(t, CHOOSE n \in ParentsOf(t, x) : TRUE, fuel - 1)

IterOps == {"tree_iter_get", "tree_iter_next"}

(***************************************************************************)
(* C25  Iteration is pre-order depth-first.  What tree_iter_get and the    *)
(* tree_iter_next calls after it have yielded is always a prefix of the    *)
(* pre-order walk of the tree (a node before its children, its whole       *)
(* subtree before its next sibling), each node with its payload and with   *)
(* the depth recorded when it was inserted, which is its depth in the      *)
(* tree; that walk holds every inserted node exactly once, children in     *)
(* the order they were inserted; a call returns null exactly when          *)
(* tree_count nodes have been yielded.                                     *)
(***************************************************************************)
C25_IterationIsPreOrder ==
    /\ Len(Elements(tree)) = tree_count(tree)
    /\ NoDuplicates(Elements(tree))
    /\ Range(Elements(tree)) = Range(born)
    /\ \A n \in TreeNodes : \A k \in 1..(Len(Children(tree, n)) - 1) :
          IndexOf(born, Children(tree, n)[k]) < IndexOf(born, Children(tree, n)[k + 1])
    /\ Len(yields) <= tree_count(tree)
    /\ \A k \in 1..Len(yields) :
          /\ yields[k].node = Elements(tree)[k]
          /\ yields[k].payload = tree.payload[yields[k].node]
          /\ yields[k].age = tree.age[yields[k].node]
          /\ yields[k].age = DepthIn(tree, yields[k].node, TreeCap + 1)
    /\ treecall.op \in IterOps =>
          /\ treecall.ret = NIL => Len(yields) = tree_count(tree)
          /\ treecall.ret # NIL => treecall.ret = yields[Len(yields)].node
          /\ treeiter.live <=> yields # <<>>

\* an iteration that has come to its end over a tree in which a node
\* has both a child with a child of its own and a next sibling
C25_Witness ==
    /\ treecall.op = "tree_iter_next"
    /\ treecall.ret = NIL
    /\ Len(yields) = tree_count(tree)
    /\ Len(yields) >= 4
    /\ [k \in 1..4 |-> yields[k].age] = <<1, 2, 3, 2>>

(***************************************************************************)
(* C26  tree_insert(parent, payload) makes payload the new last child of   *)
(* the first node, in the order "the node, then its next sibling's whole   *)
(* subtree, then its first child's subtree", whose payload equals parent;  *)
(* a null parent stands for the root.  No other node's children change.    *)
(* Without such a node, or without a free slot, nothing is inserted.       *)
(***************************************************************************)
C26_ParentPayload ==
    IF treecall.parent = NULL THEN ROOT_PAYLOAD ELSE treecall.parent

C26_Order == SearchOrder(treecall.before, treecall.before.root, TreeCap + 1)

C26_Hits == {k \in 1..Len(C26_Order) :
                treecall.before.payload[C26_Order[k]] = C26_ParentPayload}

C26_Target == C26_Order[Least(C26_Hits)]

C26_FirstMatchInSearchOrderGetsChild ==
    treecall.op = "tree_insert" =>
        IF C26_Hits = {} \/ treecall.before.released = NIL
           THEN treecall.ret = NIL
           ELSE /\ treecall.ret # NIL
                /\ tree.payload[treecall.ret] = treecall.payload
                /\ Children(tree, C26_Target)
                      = Append(Children(treecall.before, C26_Target), treecall.ret)
                /\ \A n \in Range(C26_Order) \ {C26_Target} :
                      Children(tree, n) = Children(treecall.before, n)
                /\ treecall.parent = NULL => C26_Target = tree.root

\* two nodes hold the parent payload, and the one that gets the child is
\* not the one a pre-order walk meets first
C26_Witness ==
    /\ treecall.op = "tree_insert"
    /\ treecall.ret # NIL
    /\ Cardinality(C26_Hits) >= 2
    /\ \E k \in 1..Len(Elements(treecall.before)) :
          /\ treecall.before.payload[Elements(treecall.before)[k]] = C26_ParentPayload
          /\ Elements(treecall.before)[k] # C26_Target
          /\ \A j \in 1..(k - 1) :
                treecall.before.payload[Elements(treecall.before)[j]] # C26_ParentPayload
    /\ treecall.ret \in Range(Children(tree, C26_Target))

(***************************************************************************)
(* C27  After any sequence of tree_insert and tree_clear calls: the walk   *)
(* from the root along first_child and next_sibling links meets no node    *)
(* twice (the tree is acyclic) and meets exactly the live nodes, that is   *)
(* the slots not on the released list; every live node other than the      *)
(* root is the target of exactly one link of a live node and the root of   *)
(* none; tree_count is the number of live nodes without the root.          *)
(***************************************************************************)
ReleasedNodes(t) == Range(Siblings(t, t.released, TreeCap + 2))

LiveNodes(t) == TreeNodes \ ReleasedNodes(t)

Reached(t) == PreOrder(t, t.root, TreeCap + 2)

LinksInto(t, x) ==
    Cardinality({n \in LiveNodes(t) : t.first_child[n] = x})
       + Cardinality({n \in LiveNodes(t) : t.next_sibling[n] = x})

C27_TreeIsWellFormed ==
    /\ NoDuplicates(Reached(tree))
    /\ Range(Reached(tree)) = LiveNodes(tree)
    /\ tree.root \in LiveNodes(tree)
    /\ \A x \in LiveNodes(tree) :
          LinksInto(tree, x) = IF x = tree.root THEN 0 ELSE 1
    /\ tree_count(tree) = Cardinality(LiveNodes(tree) \ {tree.root})
    /\ tree_count(tree) <= TreeCap

\* a full tree, three levels deep and with a node of two children, on
\* which an insert has just been refused
C27_Witness ==
    /\ treecall.op = "tree_insert"
    /\ treecall.ret = NIL
    /\ tree_count(tree) = TreeCap
    /\ \E x \in LiveNodes(tree) : tree.age[x] >= 3
    /\ \E x \in LiveNodes(tree) : Len(Children(tree, x)) >= 2

(***************************************************************************)
(* C28  list_clear, stack_clear, queue_clear and set_clear, from any       *)
(* reachable state, leave the collection as list_init made it: count 0,    *)
(* nothing to iterate, pop and dequeue answer -1, exactly Cap further      *)
(* inserts succeed before one fails; a second clear changes nothing.       *)
(***************************************************************************)
ClearOps == {"list_clear", "stack_clear", "queue_clear", "set_clear"}

\* how many of n inserts in a row succeed, each with a payload of its own
RECURSIVE InsertsThatSucceed(_, _)
InsertsThatSucceed(self, n) ==
    IF n = 0 \/ set_add(self, ToString(n)).node = NIL THEN 0
    ELSE 1 + InsertsThatSucceed(set_add(self, ToString(n)).self, n - 1)

C28_ClearGivesFreshCollection ==
    collcall.op \in ClearOps =>
        /\ coll = list_init(PayloadBytes, Cap)
        /\ list_count(coll) = 0
        /\ list_iter(coll) = NIL
        /\ Stored = <<>>
        /\ stack_pop(coll, Unwritten).ret = -1
        /\ queue_deq(coll, Unwritten).ret = -1
        /\ InsertsThatSucceed(coll, Cap + 1) = Cap
        /\ list_clear(coll) = coll

\* the clear of a list that held elements and had lost a slot to an insert
\* rejected for its index
C28_Witness ==
    /\ collcall.op = "list_clear"
    /\ collcall.elems # <<>>
    /\ ~ArenaIntact(collcall.before, Cap)
    /\ coll = list_init(PayloadBytes, Cap)

(***************************************************************************)
(* C29  An init call of any of the five kinds given payload size 0 or      *)
(* capacity 0 answers NULL and sets errno to EINVAL; given positive sizes  *)
(* and the memory it asks for, it answers a collection of that capacity    *)
(* with count 0 and nothing in it, errno untouched.  A release call given  *)
(* NULL returns normally and NULL it stays.                                *)
(***************************************************************************)
InitOps == {"list_init", "stack_init", "queue_init", "set_init", "tree_init"}

ReleaseOps == {"list_release", "stack_release", "queue_release", "set_release",
               "tree_release"}

\* the handle is a collection with nothing in it
EmptyCollection(handle, capacity) ==
    /\ handle \notin {NULL_HANDLE, FREED}
    /\ handle.capacity = capacity
    /\ handle.count = 0
    /\ IF kind = "tree"
          THEN /\ tree_count(handle) = 0
               /\ handle.first_child[handle.root] = NIL
          ELSE /\ list_count(handle) = 0
               /\ list_iter(handle) = NIL

C29_InitRejectsZeroSizes ==
    /\ (collcall.op \in InitOps
          /\ (collcall.payload_bytes = 0 \/ collcall.capacity = 0))
       => (coll = NULL_HANDLE /\ collcall.errno = "EINVAL")
    /\ (collcall.op \in InitOps
          /\ collcall.payload_bytes > 0 /\ collcall.capacity > 0
          /\ collcall.obtained)
       => (EmptyCollection(coll, collcall.capacity) /\ collcall.errno = "0")
    /\ (collcall.op \in ReleaseOps /\ collcall.before = NULL_HANDLE)
       => (coll = NULL_HANDLE /\ collcall.status = "ok")

\* queue_init(sizeof(int), 0), as the test suite calls it
C29_Witness ==
    /\ collcall.op = "queue_init"
    /\ collcall.payload_bytes > 0
    /\ collcall.capacity = 0
    /\ coll = NULL_HANDLE
    /\ collcall.errno = "EINVAL"

(***************************************************************************)
(* C30  (as claimed) A state change whose target T is a proper ancestor    *)
(* of machine->current S runs to its end with no assertion failing: the    *)
(* exit hooks of the states of S's chain strictly below T run, leaf        *)
(* first, no entry hook runs, and machine->current becomes T.              *)
(***************************************************************************)
C30_Applies(i) ==
    /\ log[i].hook = "change_state"
    /\ ProperAncestor(log[i].state, log[i].current)

C30_Expected(S, T) ==
    LET ExitView(x) == <<"exit", x, S>>
    IN  MapSeq(SelectSeq(ExitsOf(S, T), IsExitHooked), ExitView)
        \o << <<"DEBUG", T, S>> >>

C30_AncestorTargetCompletes ==
    \A i \in Indices({"change_state"}) :
        C30_Applies(i) =>
            /\ call.status = "ok"
            /\ MapSeq(Segment(i), View) = C30_Expected(log[i].current, log[i].state)

(***************************************************************************)
(* C31  Every row that fsm_state_transit matches, guards or acts on lies   *)
(* in front of the terminator row and is the first declared row of its     *)
(* (from, event) pair; when the guard of that row answers false nothing    *)
(* else is done for the event: no later row of the pair is matched, even   *)
(* one whose guard would pass, and no action or hook runs.                 *)
(***************************************************************************)
SamePair(t, i, j) ==
    /\ Tables[t][i].from = Tables[t][j].from
    /\ Tables[t][i].event = Tables[t][j].event

\* the log entries that follow index i within the same dispatch
RestOfDispatch(i) == SubSeq(log, i + 1, NextOf(i, {"null_dispatch"}) - 1)

C31_OnlyFirstDeclaredRowIsConsidered ==
    /\ \A i \in Indices({"row", "cond", "action"}) :
          /\ log[i].row \in LiveRows(corresps)
          /\ \A j \in 1..(log[i].row - 1) : ~SamePair(corresps, j, log[i].row)
    /\ \A i \in Indices({"row"}) :
          ~GuardPasses(corresps, log[i].row) =>
              /\ Len(RestOfDispatch(i)) = 1
              /\ RestOfDispatch(i)[1].hook = "cond"
              /\ RestOfDispatch(i)[1].row = log[i].row

\* the guard of the first row of the pair has answered false while a later
\* row of the same pair stands in the table with a guard that would pass
C31_Witness ==
    /\ call.op = "fsm_transition"
    /\ call.status = "ok"
    /\ \E i \in Indices({"row"}) :
          /\ ~GuardPasses(corresps, log[i].row)
          /\ \E j \in LiveRows(corresps) :
                /\ j > log[i].row
                /\ SamePair(corresps, j, log[i].row)
                /\ GuardPasses(corresps, j)

(***************************************************************************)
(* C32  Every fsm_transition call on a machine that returns ends with one  *)
(* dispatch of the null event against the state that is machine->current   *)
(* once the supplied event has been dealt with, whether that event moved   *)
(* the machine, found no row on current and its ancestors, or was stopped  *)
(* by a guard; what the call does after that point is the first null-      *)
(* event row of that state, if it has one.                                 *)
(***************************************************************************)
\* what the supplied event came to
EventOutcome ==
    IF ExpectedRow(corresps, call.current, call.event) = 0 THEN "unmatched"
    ELSE IF GuardPasses(corresps, ExpectedRow(corresps, call.current, call.event))
       THEN "taken"
    ELSE "guarded"

C32_NullDispatchEndsEveryTransition ==
    (call.op = "fsm_transition" /\ call.machine = "live" /\ call.status = "ok") =>
        /\ NullIdx # 0
        /\ log[NullIdx].state = log[NullIdx].current
        /\ EventOutcome \in {"unmatched", "guarded"} => log[NullIdx].current = call.current
        /\ EventOutcome = "unmatched" => NullIdx = 1
        /\ \A i \in Indices({"row"}) :
              IF i < NullIdx
                 THEN Tables[corresps][log[i].row].event = call.event
                 ELSE /\ Tables[corresps][log[i].row].event = EVENT_NULL_TRANSITION
                      /\ Tables[corresps][log[i].row].from = log[NullIdx].current
        /\ (NullIdx < Len(log))
              <=> (RowsFor(corresps, log[NullIdx].current, EVENT_NULL_TRANSITION) # {})

\* an event stopped by a guard, after which the null event dispatch finds a
\* row on the unchanged current state and moves the machine
C32_Witness ==
    /\ call.op = "fsm_transition"
    /\ call.machine = "live"
    /\ call.status = "ok"
    /\ EventOutcome = "guarded"
    /\ NullIdx # 0
    /\ NullIdx < Len(log)
    /\ current # call.current

(***************************************************************************)
(* C33  The null event dispatch that fsm_init and fsm_transition make on   *)
(* their own matches rows of machine->current only: every row it uses has  *)
(* from equal to the state it was dispatched against, and when that state  *)
(* has no null-event row the dispatch does nothing, also when an ancestor  *)
(* of the state has a null-event row.                                      *)
(***************************************************************************)
AncestorsWithNullRow(s) ==
    {a \in States : ProperAncestor(a, s)
                       /\ RowsFor(corresps, a, EVENT_NULL_TRANSITION) # {}}

C33_NullDispatchDoesNotBubble ==
    (/\ \/ call.op = "fsm_transition" /\ call.machine = "live"
        \/ call.op = "fsm_init" /\ call.ret # NULL
     /\ NullIdx # 0) =>
        /\ \A i \in NullRows : Tables[corresps][log[i].row].from = log[NullIdx].current
        /\ RowsFor(corresps, log[NullIdx].current, EVENT_NULL_TRANSITION) = {} =>
              /\ Len(log) = NullIdx
              /\ current = log[NullIdx].current
              /\ history = log[NullIdx].history

\* the dispatch that ends the handling of an ordinary event was made against
\* a state without a null-event row, below an ancestor that has one
C33_Witness ==
    /\ call.op = "fsm_transition"
    /\ call.machine = "live"
    /\ call.status = "ok"
    /\ call.event # EVENT_NULL_TRANSITION
    /\ NullIdx # 0
    /\ RowsFor(corresps, log[NullIdx].current, EVENT_NULL_TRANSITION) = {}
    /\ AncestorsWithNullRow(log[NullIdx].current) # {}
    /\ current = log[NullIdx].current

(***************************************************************************)
(* C34  (as claimed) Every fsm_transition call comes to an end, whatever   *)
(* the table and the hierarchy: the history resolution of                  *)
(* fsm_change_state never recurses without end.                            *)
(***************************************************************************)
C34_EveryTransitionTerminates ==
    call.op = "fsm_transition" => call.status \notin {"overflow", "hang"}

(***************************************************************************)
(* C35  When fsm_init or fsm_transition has returned, the history slot of  *)
(* machine->current is null, for every current state that has a variable   *)
(* object of its own (and for the others while the slot they share is      *)
(* null); and a history slot, once written, is never null again: a         *)
(* composite that was exited through a child is not the resting current    *)
(* state any more.                                                         *)
(***************************************************************************)
Returned ==
    /\ \/ call.op = "fsm_transition" /\ call.machine = "live"
       \/ call.op = "fsm_init" /\ call.ret # NULL
    /\ call.status = "ok"

RestsWithoutHistory ==
    (Returned /\ (current \in HasVariable \/ history["null_obj"] = NULL))
        => history[get_state_variable(current)] = NULL

HistoryStaysWritten ==
    \A v \in Variables : history[v] # NULL => history'[v] # NULL

C35_CurrentRemembersNoChild ==
    []RestsWithoutHistory /\ [][HistoryStaysWritten]_vars

\* a transition whose target is a composite that remembers a child has come
\* to rest further down
C35_Witness ==
    /\ Returned
    /\ call.op = "fsm_transition"
    /\ \E i \in Indices({"row"}) :
          /\ GuardPasses(corresps, log[i].row)
          /\ Tables[corresps][log[i].row].to \in HasVariable
          /\ call.history[Tables[corresps][log[i].row].to] # NULL
          /\ ProperAncestor(Tables[corresps][log[i].row].to, current)
    /\ current \in HasVariable
    /\ history[current] = NULL

(***************************************************************************)
(* C36  (as claimed) A machine created by fsm_init after earlier machines  *)
(* over the same state definitions were driven and terminated behaves as   *)
(* a machine created with every history slot null: fsm_init leaves it in   *)
(* the same current state, having run the same hooks.                      *)
(***************************************************************************)
\* fsm_init(corresps) in a process whose history slots are all null
FreshInit(t) ==
    null_transition([World(FALSE) EXCEPT
                        !.current = state_start, !.corresps = t,
                        !.src_ancestors = stack_init(PayloadBytes, NEST_MAX),
                        !.dest_ancestors = stack_init(PayloadBytes, NEST_MAX),
                        !.history = [v \in Variables |-> NULL]])

FreeBefore == list_nodes(collcall.before, collcall.before.released, Cap + 1)

C37_FailedInsertLeavesListUnchanged ==
    (/\ collcall.op = "list_insert"
     /\ collcall.index > Len(collcall.elems)) =>
        /\ collcall.ret = NIL
        /\ list_count(coll) = list_count(collcall.before)
        /\ Stored = collcall.elems
        /\ Len(Free) = Len(FreeBefore)
        /\ Len(Free) = Cap - list_count(coll)

(***************************************************************************)
(* C38  list_remove(list, iter) of a live node removes that node and       *)
(* nothing else: count goes down by one, the other nodes stay linked in    *)
(* the order they had, head and tail are the ends of what remains, and     *)
(* the node becomes the head of the released list, the slot the next       *)
(* insert takes.                                                           *)
(***************************************************************************)
C38_Removed == IndexOf(LiveBefore, collcall.index)

C38_RemoveUnlinksExactlyThatNode ==
    collcall.op = "list_remove" =>
        /\ list_count(coll) = list_count(collcall.before) - 1
        /\ Live = RemoveAt(LiveBefore, C38_Removed)
        /\ Stored = RemoveAt(collcall.elems, C38_Removed)
        /\ \A n \in Range(Live) : coll.payload[n] = collcall.before.payload[n]
        /\ coll.root = (IF Live = <<>> THEN NIL ELSE Live[1])
        /\ coll.last = (IF Live = <<>> THEN NIL ELSE Live[Len(Live)])
        /\ Live # <<>> => coll.prev[coll.root] = NIL /\ coll.next[coll.last] = NIL
        /\ \A k \in 2..Len(Live) : coll.prev[Live[k]] = Live[k - 1]
        /\ Free = <<collcall.index>> \o FreeBefore
        /\ \A i \in {-1, 0} : \A p \in Payloads :
              list_insert(coll, i, p).node = collcall.index

\* a node strictly between the head and the tail is removed and is the slot
\* the next insert takes
C38_Witness ==
    /\ collcall.op = "list_remove"
    /\ C38_Removed > 1
    /\ C38_Removed < Len(LiveBefore)
    /\ Len(Live) = Len(LiveBefore) - 1
    /\ coll.released = collcall.index

(***************************************************************************)
(* C39  The depth recorded in a node is the depth of its place in the      *)
(* tree: 0 for the root, 1 for the nodes inserted with a null parent, the  *)
(* parent's depth plus one for every other node, hence the same for all    *)
(* the children of a node; an insert leaves the recorded depth of every    *)
(* node that was already in the tree as it was, and the iterator reports   *)
(* the recorded depth.                                                     *)
(***************************************************************************)
\* node n and the siblings after it record depth d, and every subtree below
\* them records one more per level
RECURSIVE C39_AgesFit(_, _, _, _)
C39_AgesFit(t, n, d, fuel) ==
    \/ n = NIL
    \/ fuel = 0
    \/ /\ t.age[n] = d
       /\ C39_AgesFit(t, t.first_child[n], d + 1, fuel - 1)
       /\ C39_AgesFit(t, t.next_sibling[n], d, fuel - 1)

C39_DepthIsParentDepthPlusOne ==
    /\ C39_AgesFit(tree, tree.root, 0, TreeCap + 2)
    /\ treecall.op = "tree_insert" =>
          /\ \A x \in Range(Elements(treecall.before)) :
                tree.age[x] = treecall.before.age[x]
          /\ (treecall.ret # NIL /\ treecall.parent = NULL) => tree.age[treecall.ret] = 1
    /\ \A k \in 1..Len(yields) : yields[k].age = tree.age[yields[k].node]

\* an insert has put a second child under a node of depth 2 or more
C39_Witness ==
    /\ treecall.op = "tree_insert"
    /\ treecall.ret # NIL
    /\ tree.age[treecall.ret] >= 3
    /\ \E n \in TreeNodes :
          /\ Len(Children(tree, n)) >= 2
          /\ Children(tree, n)[Len(Children(tree, n))] = treecall.ret

(***************************************************************************)
(* C40  A tree of capacity C takes C nodes beside its root.  tree_insert   *)
(* succeeds when fewer than C nodes are stored and some node (the root     *)
(* for a null parent) carries the parent's payload; otherwise it returns   *)
(* null and the tree is as before: the same tree_count and the same        *)
(* iteration sequence of payloads and depths.                              *)
(***************************************************************************)
\* what an iteration over t yields: payload and depth, in order
C40_Iteration(t) ==
    LET e == Elements(t)
    IN  [k \in 1..Len(e) |-> <<t.payload[e[k]], t.age[e[k]]>>]

C40_ParentPresent ==
    \/ treecall.parent = NULL
    \/ \E n \in Range(Reached(treecall.before)) :
          treecall.before.payload[n] = treecall.parent

C40_InsertFailsWithoutSideEffect ==
    /\ tree_count(tree) = Len(Elements(tree))
    /\ tree_count(tree) <= tree.capacity
    /\ treecall.op = "tree_insert" =>
          /\ (treecall.ret # NIL)
                <=> (tree_count(treecall.before) < treecall.before.capacity
                        /\ C40_ParentPresent)
          /\ treecall.ret # NIL =>
                tree_count(tree) = tree_count(treecall.before) + 1
          /\ treecall.ret = NIL =>
                /\ tree_count(tree) = tree_count(treecall.before)
                /\ C40_Iteration(tree) = C40_Iteration(treecall.before)
                /\ tree = treecall.before

\* an insert under a parent that is present fails on the full tree
C40_Witness ==
    /\ treecall.op = "tree_insert"
    /\ treecall.ret = NIL
    /\ treecall.parent # NULL
    /\ C40_ParentPresent
    /\ tree_count(treecall.before) = TreeCap
    /\ Len(Elements(tree)) = TreeCap

====
